---- MODULE Spec2Model ----
(***************************************************************************)
(* A model of the INARA retrieval pipeline.                                *)
(*                                                                         *)
(*   DocumentProcessor (src/LLM/train.py): load_documents, _chunk_text,    *)
(*   create_embeddings, save_to_vector_store.                              *)
(*   SimpleRAG (src/LLM/main.py): load_vector_store, search_documents.     *)
(*                                                                         *)
(* Strings are sequences of characters.  Python lists are sequences,      *)
(* Python dicts with fixed keys are records, an optional value is the      *)
(* empty sequence (absent) or a one-element sequence (present).            *)
(***************************************************************************)
EXTENDS Integers, Sequences, FiniteSets, TLC

VARIABLES
    data_dir,        \* the files of the data directory, in listing order
    documents,       \* DocumentProcessor.documents
    embeddings,      \* DocumentProcessor.embeddings
    chunks_info,     \* DocumentProcessor.chunks_info
    embed_log,       \* the embedding service's record of the last create_embeddings run
    index_file,      \* <prefix>.index on disk
    pkl_file,        \* <prefix>.pkl on disk
    pre_save,        \* what the save that wrote the intact pair on disk held in memory
    disk_intact,     \* both files on disk were written by that one completed save
    proc_op,         \* the DocumentProcessor's last operation and how it ended
    rag_state,       \* SimpleRAG: "none", "ready" (constructed), "failed" (constructor raised)
    index,           \* SimpleRAG.index
    rag_documents,   \* SimpleRAG.documents
    rag_chunks_info, \* SimpleRAG.chunks_info
    load_saw,        \* which files existed when load_vector_store ran
    rag_snap,        \* pre_save as it was when a load read an intact pair
    last_search,     \* the last search_documents call and its outcome
    chunk_call,      \* one call of _chunk_text: its arguments and its result
    parse_call,      \* one call of parse_function_call: its argument and its result
    tool,            \* the tool-calling SimpleRAG: its last call and what it did
    gui,             \* the GUI query pipeline: its last call and what it did
    program          \* one run of a program: how it was started and how far it got

buildVars == <<data_dir, documents, embeddings, chunks_info, embed_log,
               index_file, pkl_file, pre_save, disk_intact, proc_op>>
ragVars == <<rag_state, index, rag_documents, rag_chunks_info, load_saw, rag_snap,
             last_search>>
storeVars == <<buildVars, ragVars>>
\* The variables of the other specifications, which the store's operations leave alone
notStoreVars == <<chunk_call, parse_call, tool, gui, program>>
vars == <<storeVars, notStoreVars>>

----------------------------------------------------------------------------
(* Bounds of the model *)

MaxTopK == 3
MaxTextLen == 5
MaxChunkSize == 3
MaxItems == 2
MaxArgs == 2

(* Program constants *)

DefaultChunkSize == 1000

----------------------------------------------------------------------------
(* Generic helpers *)

None == <<>>
Some(x) == <<x>>

RECURSIVE SumSeq(_)
SumSeq(s) ==
    IF s = <<>> THEN 0 ELSE Head(s) + SumSeq(Tail(s))

RECURSIVE Flatten(_)
Flatten(ss) ==
    IF ss = <<>> THEN <<>> ELSE Head(ss) \o Flatten(Tail(ss))

Min(a, b) == IF a <= b THEN a ELSE b

----------------------------------------------------------------------------
(* The chunker: text[i:i + chunk_size] for i in range(0, len(text), chunk_size) *)

\* range(start, stop, step) for step > 0
RECURSIVE PyRange(_, _, _)
PyRange(start, stop, step) ==
    IF start >= stop THEN <<>> ELSE <<start>> \o PyRange(start + step, stop, step)

\* text[lo:hi] with 0 <= lo <= hi, clamped to the text as Python slicing does
PySlice(text, lo, hi) ==
    SubSeq(text, Min(lo, Len(text)) + 1, Min(hi, Len(text)))

\* A chunker that also emits the window starting at len(text)
ChunkTextInclusiveStop(text, chunk_size) ==
    LET starts == PyRange(0, Len(text) + 1, chunk_size)
    IN  [j \in 1..Len(starts) |-> PySlice(text, starts[j], starts[j] + chunk_size)]

_chunk_text(text, chunk_size) ==
    LET starts == PyRange(0, Len(text), chunk_size)
    IN  [j \in 1..Len(starts) |-> PySlice(text, starts[j], starts[j] + chunk_size)]

----------------------------------------------------------------------------
(* The data directory and load_documents *)

LongText == [i \in 1..(DefaultChunkSize + 1) |-> IF i % 2 = 1 THEN "a" ELSE "b"]

File(name, ext, readable, content) ==
    [name |-> name, ext |-> ext, readable |-> readable, content |-> content]

\* Directories whose documents all fit one chunk
SmallDirs ==
    { <<File("a", "md", TRUE, <<"a", "b">>), File("notes", "csv", TRUE, <<"a">>),
        File("b", "pdf", TRUE, <<"b">>)>>,
      <<File("e", "txt", TRUE, <<>>)>>,
      <<File("bad", "pdf", FALSE, <<>>)>>,
      <<>> }

DataDirs ==
    SmallDirs \cup
    { <<File("long", "txt", TRUE, LongText)>>,
      <<File("e", "md", TRUE, <<>>), File("c", "txt", TRUE, <<"a">>)>>,
      <<File("a", "md", TRUE, <<"b">>), File("scan", "PDF", TRUE, <<"b">>),
        File("a", "txt", FALSE, <<>>)>> }

\* glob.glob(os.path.join(data_dir, "*.<ext>"))
Glob(dir, ext) == SelectSeq(dir, LAMBDA f : f.ext = ext)

\* f"Error processing document: {str(e)}"
ErrorText == <<"Error processing document: ", "reason">>

\* os.path.basename(file_path)
Basename(f) == <<f.name, ".", f.ext>>

\* _process_pdf, _process_txt, _process_md
ProcessFile(f, type) ==
    [id |-> Basename(f), source |-> <<"data_dir/">> \o Basename(f), type |-> type,
     text |-> IF f.readable THEN f.content ELSE ErrorText,
     chunks_count |-> None]

\* A loader that leaves out the files it cannot read
LoadDocumentsSkippingFailed(dir) ==
    LET docsOf(ext) ==
            LET fs == SelectSeq(Glob(dir, ext), LAMBDA f : f.readable)
            IN  [i \in 1..Len(fs) |-> ProcessFile(fs[i], ext)]
    IN  docsOf("pdf") \o docsOf("txt") \o docsOf("md")

LoadDocuments(dir) ==
    LET docsOf(ext) ==
            LET fs == Glob(dir, ext)
            IN  [i \in 1..Len(fs) |-> ProcessFile(fs[i], ext)]
    IN  docsOf("pdf") \o docsOf("txt") \o docsOf("md")

----------------------------------------------------------------------------
(* The embedding service and create_embeddings *)

\* The vectors the embedding service may return: one fixed dimension
EmbedVectors == { <<1, 0>>, <<0, 3>> }

\* One call to genai.embed_content: it raises, or it returns a vector
EmbedOutcomes == { None } \cup { Some(v) : v \in EmbedVectors }

ChunksOf(doc) == _chunk_text(doc.text, DefaultChunkSize)

\* The number of embedding calls create_embeddings makes for these documents
EmbedCalls(docs) == SumSeq([i \in 1..Len(docs) |-> Len(ChunksOf(docs[i]))])

ChunkRecord(doc_idx, doc, chunk_idx, chunk) ==
    [doc_idx |-> doc_idx, doc_id |-> doc.id, doc_type |-> doc.type,
     chunk_idx |-> chunk_idx, text |-> chunk]

\* The inner loop's body for one chunk, with the chunk record appended before
\* the embedding call instead of after it
EmbedOneRecordFirst(acc, doc_idx, doc, chunk_idx, chunk, outcome) ==
    [embeddings |-> IF outcome = None THEN acc.embeddings
                    ELSE Append(acc.embeddings, outcome[1]),
     chunks_info |-> Append(acc.chunks_info, ChunkRecord(doc_idx, doc, chunk_idx, chunk)),
     log |-> Append(acc.log, [content |-> chunk, outcome |-> outcome])]

\* The inner loop's body for one chunk: try: embed, append both; except: continue
EmbedOne(acc, doc_idx, doc, chunk_idx, chunk, outcome) ==
    IF outcome = None
    THEN [acc EXCEPT !.log = Append(@, [content |-> chunk, outcome |-> outcome])]
    ELSE [embeddings |-> Append(acc.embeddings, outcome[1]),
          chunks_info |-> Append(acc.chunks_info,
                                 ChunkRecord(doc_idx, doc, chunk_idx, chunk)),
          log |-> Append(acc.log, [content |-> chunk, outcome |-> outcome])]

\* for chunk_idx, chunk in enumerate(chunks), from position chunk_idx on
RECURSIVE EmbedChunks(_, _, _, _, _, _)
EmbedChunks(acc, doc_idx, doc, chunks, chunk_idx, oracle) ==
    IF chunk_idx >= Len(chunks) THEN acc
    ELSE EmbedChunks(
            EmbedOne(acc, doc_idx, doc, chunk_idx, chunks[chunk_idx + 1],
                     oracle[Len(acc.log) + 1]),
            doc_idx, doc, chunks, chunk_idx + 1, oracle)

\* for doc_idx, doc in enumerate(self.documents), from position doc_idx on
RECURSIVE EmbedDocs(_, _, _, _)
EmbedDocs(acc, docs, doc_idx, oracle) ==
    IF doc_idx >= Len(docs) THEN acc
    ELSE EmbedDocs(
            EmbedChunks(acc, doc_idx, docs[doc_idx + 1], ChunksOf(docs[doc_idx + 1]),
                        0, oracle),
            docs, doc_idx + 1, oracle)

\* doc["chunks_count"] = len(chunks), for every document
WithChunkCounts(docs) ==
    [i \in 1..Len(docs) |-> [docs[i] EXCEPT !.chunks_count = Some(Len(ChunksOf(docs[i])))]]

\* create_embeddings recording, as a document's chunks_count, the number of its
\* chunks that were embedded
CreateEmbeddingsCountingIndexed(docs0, dir, oracle) ==
    LET docs == IF docs0 = <<>> THEN LoadDocuments(dir) ELSE docs0
        acc == EmbedDocs([embeddings |-> <<>>, chunks_info |-> <<>>, log |-> <<>>],
                         docs, 0, oracle)
    IN  [documents |->
            [i \in 1..Len(docs) |->
                [docs[i] EXCEPT !.chunks_count =
                    Some(Len(SelectSeq(acc.chunks_info,
                                       LAMBDA c : c.doc_idx = i - 1)))]],
         embeddings |-> acc.embeddings,
         chunks_info |-> acc.chunks_info, log |-> acc.log]

\* create_embeddings on a processor holding docs; oracle[j] is the outcome of the
\* j-th embedding call
CreateEmbeddings(docs0, dir, oracle) ==
    LET docs == IF docs0 = <<>> THEN LoadDocuments(dir) ELSE docs0
        acc == EmbedDocs([embeddings |-> <<>>, chunks_info |-> <<>>, log |-> <<>>],
                         docs, 0, oracle)
    IN  [documents |-> WithChunkCounts(docs), embeddings |-> acc.embeddings,
         chunks_info |-> acc.chunks_info, log |-> acc.log]

\* The documents create_embeddings will iterate over
DocsToEmbed(docs0, dir) == IF docs0 = <<>> THEN LoadDocuments(dir) ELSE docs0

Oracles(n) == [1..n -> EmbedOutcomes]

\* Every state create_embeddings can leave a processor holding docs0 in, over
\* all outcomes of its embedding calls
CreateOutcomes(docs0, dir) ==
    { CreateEmbeddings(docs0, dir, oracle) :
        oracle \in Oracles(EmbedCalls(DocsToEmbed(docs0, dir))) }

----------------------------------------------------------------------------
(* The vector index (faiss.IndexFlatL2) and the two files of the store *)

\* astype('float32'): every component is rounded to the coarser float32 grid; on
\* the model's integer grid the float32 values are the even numbers
ToFloat32(x) == 2 * (x \div 2)

VecToFloat32(v) == [c \in 1..Len(v) |-> ToFloat32(v[c])]

\* index = faiss.IndexFlatL2(len(embeddings[0])); index.add(embeddings_array)
BuildIndex(embs) ==
    [d |-> Len(embs[1]), ntotal |-> Len(embs),
     xb |-> [i \in 1..Len(embs) |-> VecToFloat32(embs[i])]]

\* An index writer that leaves out the last vector's codes
WriteIndexShort(idx) ==
    [d |-> idx.d, ntotal |-> idx.ntotal - 1,
     codes |-> Flatten(SubSeq(idx.xb, 1, idx.ntotal - 1))]

\* faiss.write_index: the header (d, ntotal) followed by the vectors' components
WriteIndex(idx) ==
    [d |-> idx.d, ntotal |-> idx.ntotal, codes |-> Flatten(idx.xb)]

\* faiss.read_index: the components regrouped into ntotal vectors of dimension d
ReadIndex(blob) ==
    [d |-> blob.d, ntotal |-> blob.ntotal,
     xb |-> [i \in 1..blob.ntotal |->
                SubSeq(blob.codes, (i - 1) * blob.d + 1, i * blob.d)]]

\* pickle.dump({"documents": ..., "chunks_info": ...}, f)
WritePkl(docs, chunks) == [documents |-> docs, chunks_info |-> chunks]

\* How the file writes of one save_to_vector_store end: both succeed, or the
\* index file is written and the metadata file is not (open fails, process killed)
SaveIO == { "ok", "pkl_fail" }

----------------------------------------------------------------------------
(* DocumentProcessor operations *)

load_documents ==
    /\ documents' = LoadDocuments(data_dir)
    /\ proc_op' = [op |-> "load_documents", result |-> "ok"]
    /\ UNCHANGED <<data_dir, embeddings, chunks_info, embed_log,
                   index_file, pkl_file, pre_save, disk_intact>>
    /\ UNCHANGED ragVars
    /\ UNCHANGED notStoreVars

create_embeddings ==
    /\ \E r \in CreateOutcomes(documents, data_dir) :
          /\ documents' = r.documents
          /\ embeddings' = r.embeddings
          /\ chunks_info' = r.chunks_info
          /\ embed_log' = r.log
    /\ proc_op' = [op |-> "create_embeddings", result |-> "ok"]
    /\ UNCHANGED <<data_dir, index_file, pkl_file, pre_save, disk_intact>>
    /\ UNCHANGED ragVars
    /\ UNCHANGED notStoreVars

\* The part of save_to_vector_store after both emptiness checks, on a processor
\* holding (docs, embs, chunks)
WriteStore(docs, embs, chunks, io) ==
    LET idx == BuildIndex(embs)
    IN  /\ index_file' = Some(WriteIndex(idx))
        /\ IF io = "ok"
           THEN /\ pkl_file' = Some(WritePkl(docs, chunks))
                /\ pre_save' = Some([index |-> idx, documents |-> docs,
                                     chunks_info |-> chunks])
                /\ disk_intact' = TRUE
           ELSE /\ pkl_file' = pkl_file
                /\ pre_save' = None
                /\ disk_intact' = FALSE

\* save_to_vector_store with embeddings present
SaveWithEmbeddings ==
    /\ embeddings # <<>>
    /\ \E io \in SaveIO :
          /\ WriteStore(documents, embeddings, chunks_info, io)
          /\ proc_op' = [op |-> "save_to_vector_store",
                         result |-> IF io = "ok" THEN "ok" ELSE "OSError"]
    /\ UNCHANGED <<data_dir, documents, embeddings, chunks_info, embed_log>>
    /\ UNCHANGED ragVars
    /\ UNCHANGED notStoreVars

\* The rest of save_to_vector_store without its second emptiness check:
\* len(self.embeddings[0]) raises on the empty list
SaveCreatedUnchecked(r, io) ==
    IF r.embeddings = <<>>
    THEN /\ proc_op' = [op |-> "save_to_vector_store", result |-> "IndexError"]
         /\ UNCHANGED <<index_file, pkl_file, pre_save, disk_intact>>
    ELSE /\ WriteStore(r.documents, r.embeddings, r.chunks_info, io)
         /\ proc_op' = [op |-> "save_to_vector_store",
                        result |-> IF io = "ok" THEN "ok" ELSE "OSError"]

\* The rest of save_to_vector_store once create_embeddings has left the
\* processor in state r: the second emptiness check, then the writes
SaveCreated(r, io) ==
    IF r.embeddings = <<>>
    THEN /\ proc_op' = [op |-> "save_to_vector_store", result |-> "ValueError"]
         /\ UNCHANGED <<index_file, pkl_file, pre_save, disk_intact>>
    ELSE /\ WriteStore(r.documents, r.embeddings, r.chunks_info, io)
         /\ proc_op' = [op |-> "save_to_vector_store",
                        result |-> IF io = "ok" THEN "ok" ELSE "OSError"]

\* save_to_vector_store with no embeddings: it runs create_embeddings first, and
\* raises ValueError when there are still none
SaveCreatingEmbeddings ==
    /\ embeddings = <<>>
    /\ \E r \in CreateOutcomes(documents, data_dir) :
          /\ documents' = r.documents
          /\ embeddings' = r.embeddings
          /\ chunks_info' = r.chunks_info
          /\ embed_log' = r.log
          /\ \E io \in SaveIO : SaveCreated(r, io)
    /\ UNCHANGED data_dir
    /\ UNCHANGED ragVars
    /\ UNCHANGED notStoreVars

save_to_vector_store == SaveWithEmbeddings \/ SaveCreatingEmbeddings

\* What the processor holds when main() of the indexing tool reaches the writes
\* of save_to_vector_store, or "ValueError" when save_to_vector_store raises:
\* load_documents, create_embeddings, and create_embeddings once more inside
\* save_to_vector_store when the first run produced nothing
TrainOutcomes(dir) ==
    LET held(r) == IF r.embeddings = <<>>
                   THEN [raised |-> "ValueError", documents |-> r.documents,
                         embeddings |-> <<>>, chunks_info |-> <<>>]
                   ELSE [raised |-> "", documents |-> r.documents,
                         embeddings |-> r.embeddings, chunks_info |-> r.chunks_info]
        first == CreateOutcomes(LoadDocuments(dir), dir)
    IN  { held(r1) : r1 \in { r \in first : r.embeddings # <<>> } }
        \cup UNION { { held(r2) : r2 \in CreateOutcomes(r1.documents, dir) } :
                     r1 \in { r \in first : r.embeddings = <<>> } }

\* main() of the indexing tool, one process from start to exit.  The processor
\* dies with the process.
train_main ==
    /\ \E r \in TrainOutcomes(data_dir) :
          IF r.raised = ""
          THEN \E io \in SaveIO : WriteStore(r.documents, r.embeddings, r.chunks_info, io)
          ELSE UNCHANGED <<index_file, pkl_file, pre_save, disk_intact>>
    /\ UNCHANGED <<data_dir, documents, embeddings, chunks_info, embed_log, proc_op>>
    /\ UNCHANGED ragVars
    /\ UNCHANGED notStoreVars

\* Somebody removes one of the two files of the store
RemoveIndexFile ==
    /\ index_file # None
    /\ index_file' = None
    /\ disk_intact' = FALSE
    /\ pre_save' = None
    /\ UNCHANGED <<data_dir, documents, embeddings, chunks_info, embed_log,
                   pkl_file, proc_op>>
    /\ UNCHANGED ragVars
    /\ UNCHANGED notStoreVars

RemovePklFile ==
    /\ pkl_file # None
    /\ pkl_file' = None
    /\ disk_intact' = FALSE
    /\ pre_save' = None
    /\ UNCHANGED <<data_dir, documents, embeddings, chunks_info, embed_log,
                   index_file, proc_op>>
    /\ UNCHANGED ragVars
    /\ UNCHANGED notStoreVars

----------------------------------------------------------------------------
(* SimpleRAG: the constructor's load_vector_store *)

\* A load that reads the index before it looks for the metadata file
LoadIndexBeforePklCheck(idxf, pklf) ==
    IF idxf = None
    THEN [raised |-> "FileNotFoundError", index |-> None, documents |-> None,
          chunks_info |-> None]
    ELSE IF pklf = None
    THEN [raised |-> "FileNotFoundError", index |-> Some(ReadIndex(idxf[1])),
          documents |-> None, chunks_info |-> None]
    ELSE [raised |-> "", index |-> Some(ReadIndex(idxf[1])),
          documents |-> Some(pklf[1].documents),
          chunks_info |-> Some(pklf[1].chunks_info)]

\* load_vector_store on the files (idxf, pklf): what it raises ("" when it
\* returns) and the attributes it has set by then
LoadVectorStore(idxf, pklf) ==
    IF idxf = None
    THEN [raised |-> "FileNotFoundError", index |-> None, documents |-> None,
          chunks_info |-> None]
    ELSE IF pklf = None
    THEN [raised |-> "FileNotFoundError", index |-> None, documents |-> None,
          chunks_info |-> None]
    ELSE [raised |-> "", index |-> Some(ReadIndex(idxf[1])),
          documents |-> Some(pklf[1].documents),
          chunks_info |-> Some(pklf[1].chunks_info)]

\* The constructor's call of load_vector_store on a new object: the attributes
\* it sets, and whether the object is ready afterwards
ConstructorLoad ==
    /\ LET r == LoadVectorStore(index_file, pkl_file)
       IN  /\ index' = r.index
           /\ rag_documents' = r.documents
           /\ rag_chunks_info' = r.chunks_info
           /\ rag_state' = IF r.raised = "" THEN "ready" ELSE "failed"
    /\ load_saw' = Some([index |-> index_file # None, pkl |-> pkl_file # None,
                         raised |-> LoadVectorStore(index_file, pkl_file).raised])
    /\ rag_snap' = IF disk_intact THEN pre_save ELSE None
    /\ last_search' = None

\* SimpleRAG(vector_store_path): a new object; load_vector_store is its first step
\* and the constructor completes only when the load returns
SimpleRAG_init ==
    /\ ConstructorLoad
    /\ UNCHANGED buildVars
    /\ UNCHANGED notStoreVars

----------------------------------------------------------------------------
(* SimpleRAG.search_documents *)

\* The vectors the embedding service may return for a query
QueryVectors == { <<0, 1>>, <<1, 3>> }

\* Squared Euclidean distance
RECURSIVE L2sqr(_, _)
L2sqr(a, b) ==
    IF a = <<>> THEN 0
    ELSE (Head(a) - Head(b)) * (Head(a) - Head(b)) + L2sqr(Tail(a), Tail(b))

\* The label faiss reports when fewer than k vectors exist
NoResult == 0 - 1

\* index.search(query_vector, k) on a flat L2 index: the labels (0-based
\* positions) of the min(k, ntotal) nearest vectors by ascending distance, then
\* NoResult up to length k.  The order among vectors at equal distance is the
\* library's choice, so every admissible answer is in this set.
FaissSearch(idx, qv, k) ==
    LET n == idx.ntotal
        m == Min(k, n)
        dist(label) == L2sqr(idx.xb[label + 1], qv)
        best == { s \in [1..m -> 0..(n - 1)] :
                    /\ \A i, j \in 1..m : i < j => s[i] # s[j] /\ dist(s[i]) <= dist(s[j])
                    /\ \A l \in 0..(n - 1) :
                          (\A i \in 1..m : s[i] # l) =>
                              \A i \in 1..m : dist(s[i]) <= dist(l) }
    IN  { [labels |-> [i \in 1..k |-> IF i <= m THEN s[i] ELSE NoResult],
           distances |-> [i \in 1..k |-> IF i <= m THEN dist(s[i]) ELSE NoResult]] :
          s \in best }

QueryResult(chunk_info, score) ==
    [id |-> chunk_info.doc_id, chunk_idx |-> chunk_info.chunk_idx,
     text |-> chunk_info.text, score |-> score]

\* The gathering loop with each result put in front of the earlier ones
RECURSIVE GatherPrepending(_, _, _, _)
GatherPrepending(found, chunks, i, results) ==
    IF i >= Len(found.labels) THEN [raised |-> "", results |-> results]
    ELSE LET idx == found.labels[i + 1]
         IN  IF idx = NoResult THEN GatherPrepending(found, chunks, i + 1, results)
             ELSE IF idx >= Len(chunks)
             THEN [raised |-> "IndexError", results |-> <<>>]
             ELSE GatherPrepending(found, chunks, i + 1,
                     <<QueryResult(chunks[idx + 1], found.distances[i + 1])>> \o results)

\* for i, idx in enumerate(indices[0]): if idx != -1: results.append(...), from
\* position i on; self.chunks_info[idx] raises IndexError past the list's end
RECURSIVE Gather(_, _, _, _)
Gather(found, chunks, i, results) ==
    IF i >= Len(found.labels) THEN [raised |-> "", results |-> results]
    ELSE LET idx == found.labels[i + 1]
         IN  IF idx = NoResult THEN Gather(found, chunks, i + 1, results)
             ELSE IF idx >= Len(chunks)
             THEN [raised |-> "IndexError", results |-> <<>>]
             ELSE Gather(found, chunks, i + 1,
                     Append(results, QueryResult(chunks[idx + 1], found.distances[i + 1])))

\* search_documents(query, top_k) when the query embedding call raises
SearchEmbedFails ==
    /\ rag_state = "ready"
    /\ \E top_k \in 1..MaxTopK :
          last_search' = Some([top_k |-> top_k, query_vector |-> None,
                               found |-> None, raised |-> "EmbedError",
                               results |-> <<>>])
    /\ UNCHANGED <<rag_state, index, rag_documents, rag_chunks_info, load_saw, rag_snap>>
    /\ UNCHANGED buildVars
    /\ UNCHANGED notStoreVars

\* search_documents(query, top_k) when the query embedding call returns
SearchEmbedded ==
    /\ rag_state = "ready"
    /\ \E top_k \in 1..MaxTopK, qe \in QueryVectors :
          LET qv == VecToFloat32(qe)
          IN  \E found \in FaissSearch(index[1], qv, top_k) :
                LET g == Gather(found, rag_chunks_info[1], 0, <<>>)
                IN  last_search' = Some([top_k |-> top_k, query_vector |-> Some(qv),
                                         found |-> Some(found), raised |-> g.raised,
                                         results |-> g.results])
    /\ UNCHANGED <<rag_state, index, rag_documents, rag_chunks_info, load_saw, rag_snap>>
    /\ UNCHANGED buildVars
    /\ UNCHANGED notStoreVars

search_documents == SearchEmbedFails \/ SearchEmbedded

----------------------------------------------------------------------------
(* The store specification: the indexing tool, the files, the retriever *)

InitWith(dirs) ==
    /\ data_dir \in dirs
    /\ documents = <<>>
    /\ embeddings = <<>>
    /\ chunks_info = <<>>
    /\ embed_log = <<>>
    /\ index_file = None
    /\ pkl_file = None
    /\ pre_save = None
    /\ disk_intact = FALSE
    /\ proc_op = [op |-> "init", result |-> "ok"]
    /\ rag_state = "none"
    /\ index = None
    /\ rag_documents = None
    /\ rag_chunks_info = None
    /\ load_saw = None
    /\ rag_snap = None
    /\ last_search = None

\* No call of the chunker, the parser, the tool-calling or the GUI pipeline
NoCall == [op |-> "none"]

InitNotStore ==
    /\ chunk_call = NoCall
    /\ parse_call = NoCall
    /\ tool = NoCall
    /\ gui = NoCall
    /\ program = NoCall

Init == InitWith(SmallDirs) /\ InitNotStore

Next ==
    \/ train_main
    \/ RemoveIndexFile
    \/ RemovePklFile
    \/ SimpleRAG_init
    \/ search_documents

Spec == Init /\ [][Next]_vars

----------------------------------------------------------------------------
(* The build specification: the DocumentProcessor's methods called one by one *)

NextBuild ==
    \/ load_documents
    \/ create_embeddings
    \/ save_to_vector_store

InitBuild == InitWith(DataDirs) /\ InitNotStore

SpecBuild == InitBuild /\ [][NextBuild]_vars

----------------------------------------------------------------------------
(* Properties of the store *)

\* The chunks of the documents in the order create_embeddings visits them, each
\* with the record that describes it
ChunkPositions(docs) ==
    Flatten([d \in 1..Len(docs) |->
                [c \in 1..Len(ChunksOf(docs[d])) |->
                    [doc_idx |-> d - 1, doc_id |-> docs[d].id, doc_type |-> docs[d].type,
                     chunk_idx |-> c - 1, text |-> ChunksOf(docs[d])[c]]]])

\* The positions of the embedding calls that returned a vector, in call order
RECURSIVE Successes(_, _)
Successes(log, j) ==
    IF j > Len(log) THEN <<>>
    ELSE (IF log[j].outcome # None THEN <<j>> ELSE <<>>) \o Successes(log, j + 1)

\* C1: after create_embeddings, whatever embedding calls failed, chunks_info and
\* embeddings have the same length and chunks_info[i] is the record of exactly the
\* chunk whose embedding is embeddings[i] (a chunk whose embedding failed is in
\* neither list); and a save_to_vector_store that writes the index file writes
\* exactly len(chunks_info) vectors, in that order.
C1_Aligned ==
    LET ok == Successes(embed_log, 1)
        pos == ChunkPositions(documents)
    IN  /\ Len(chunks_info) = Len(embeddings)
        /\ Len(chunks_info) = Len(ok)
        /\ Len(embed_log) \in {0, Len(pos)}
        /\ \A i \in 1..Len(ok) :
              /\ chunks_info[i] = pos[ok[i]]
              /\ embed_log[ok[i]].content = chunks_info[i].text
              /\ embeddings[i] = embed_log[ok[i]].outcome[1]
        /\ (proc_op.op = "save_to_vector_store" /\ proc_op.result # "ValueError") =>
              /\ index_file # None
              /\ index_file[1].ntotal = Len(chunks_info)
              /\ Len(index_file[1].codes) = index_file[1].ntotal * index_file[1].d
              /\ \A i \in 1..Len(chunks_info) :
                    ReadIndex(index_file[1]).xb[i] = VecToFloat32(embeddings[i])

\* A store was saved from a run whose first embedding call failed and whose
\* second succeeded
C1_Witness ==
    /\ proc_op = [op |-> "save_to_vector_store", result |-> "ok"]
    /\ Len(embed_log) = 2
    /\ embed_log[1].outcome = None
    /\ Len(embeddings) = 1
    /\ chunks_info[1].chunk_idx + chunks_info[1].doc_idx = 1

\* C2: a search_documents(query, top_k) that returns on a loaded store of N
\* vectors returns exactly min(top_k, N) results in non-decreasing score order;
\* the -1 positions of the index search are skipped and every other position i is
\* reported with the id, chunk_idx and text of chunks_info[i].
C2_SearchResults ==
    (last_search # None /\ last_search[1].raised = "") =>
        LET call == last_search[1]
            results == call.results
            labels == call.found[1].labels
            distances == call.found[1].distances
            chunks == rag_chunks_info[1]
        IN  /\ Len(results) = Min(call.top_k, index[1].ntotal)
            /\ Len(results) <= call.top_k
            /\ \A i, j \in 1..Len(results) : i < j => results[i].score <= results[j].score
            /\ \A i \in 1..Len(labels) :
                  IF i <= Len(results)
                  THEN /\ labels[i] # NoResult
                       /\ results[i].id = chunks[labels[i] + 1].doc_id
                       /\ results[i].chunk_idx = chunks[labels[i] + 1].chunk_idx
                       /\ results[i].text = chunks[labels[i] + 1].text
                       /\ results[i].score = distances[i]
                  ELSE labels[i] = NoResult

\* A search asked for more results than the store has vectors and returned two
\* results at different distances
C2_Witness ==
    /\ last_search # None
    /\ last_search[1].raised = ""
    /\ last_search[1].top_k = 3
    /\ Len(last_search[1].results) = 2
    /\ last_search[1].results[1].score < last_search[1].results[2].score

\* Every result list search_documents can return on (idx, chunks) for a query
\* vector and top_k
SearchOutcomes(idx, chunks, qv, top_k) ==
    { Gather(found, chunks, 0, <<>>) : found \in FaissSearch(idx, qv, top_k) }

\* C3: a SimpleRAG that loads a pair of files written by one completed
\* save_to_vector_store holds the documents and chunks_info the processor held
\* and an index with the same vectors in the same order as the index the save
\* built, so for every query vector and top_k the result lists search_documents
\* can return on the loaded store are those of the pre-save index and chunks_info.
C3_RoundTrip ==
    (rag_state = "ready" /\ rag_snap # None) =>
        /\ index[1] = rag_snap[1].index
        /\ rag_documents[1] = rag_snap[1].documents
        /\ rag_chunks_info[1] = rag_snap[1].chunks_info
        /\ \A qe \in QueryVectors, top_k \in 1..MaxTopK :
              SearchOutcomes(index[1], rag_chunks_info[1], VecToFloat32(qe), top_k)
              = SearchOutcomes(rag_snap[1].index, rag_snap[1].chunks_info,
                               VecToFloat32(qe), top_k)

\* A store of two vectors was saved, loaded and searched
C3_Witness ==
    /\ rag_state = "ready"
    /\ rag_snap # None
    /\ index[1].ntotal = 2
    /\ last_search # None
    /\ Len(last_search[1].results) = 2

\* C4: load_vector_store raises FileNotFoundError exactly when <prefix>.index or
\* <prefix>.pkl is absent, and then none of index, documents, chunks_info has been
\* set and the constructor has not completed.
C4_MissingArtifact ==
    load_saw # None =>
        /\ (load_saw[1].raised = "FileNotFoundError")
              <=> (~load_saw[1].index \/ ~load_saw[1].pkl)
        /\ (load_saw[1].raised # "") =>
              /\ rag_state = "failed"
              /\ index = None
              /\ rag_documents = None
              /\ rag_chunks_info = None
        /\ (load_saw[1].raised = "") =>
              /\ rag_state = "ready"
              /\ index # None
              /\ rag_documents # None
              /\ rag_chunks_info # None

\* A load ran when only the metadata file existed
C4_Witness ==
    /\ load_saw # None
    /\ ~load_saw[1].index
    /\ load_saw[1].pkl
    /\ rag_state = "failed"

----------------------------------------------------------------------------
(* The chunker specification: _chunk_text as a pure function *)

Chars == { "a", "b" }

Texts == UNION { [1..n -> Chars] : n \in 0..MaxTextLen }

InitChunk ==
    /\ InitWith({ <<>> })
    /\ chunk_call \in { [op |-> "call", text |-> t, chunk_size |-> c, chunks |-> None] :
                          t \in Texts, c \in 1..MaxChunkSize }
    /\ parse_call = NoCall
    /\ tool = NoCall
    /\ gui = NoCall
    /\ program = NoCall

chunk_text ==
    /\ chunk_call.op = "call"
    /\ chunk_call' = [chunk_call EXCEPT
                        !.op = "returned",
                        !.chunks = Some(_chunk_text(chunk_call.text,
                                                    chunk_call.chunk_size))]
    /\ UNCHANGED <<storeVars, parse_call, tool, gui, program>>

NextChunk == chunk_text

SpecChunk == InitChunk /\ [][NextChunk]_vars

\* C5: _chunk_text(text, chunk_size) with chunk_size > 0 returns
\* ceil(len(text) / chunk_size) chunks (none for the empty text), each but the
\* last of length chunk_size, the last of length 1..chunk_size, and the chunks
\* concatenated in order are the text.
C5_Chunking ==
    chunk_call.op = "returned" =>
        LET chunks == chunk_call.chunks[1]
            L == Len(chunk_call.text)
            C == chunk_call.chunk_size
        IN  /\ Len(chunks) = (L + C - 1) \div C
            /\ (L = 0) => chunks = <<>>
            /\ \A j \in 1..(Len(chunks) - 1) : Len(chunks[j]) = C
            /\ (chunks # <<>>) =>
                  /\ Len(chunks[Len(chunks)]) >= 1
                  /\ Len(chunks[Len(chunks)]) <= C
            /\ Flatten(chunks) = chunk_call.text

\* A text was split into several full chunks and a shorter last one
C5_Witness ==
    /\ chunk_call.op = "returned"
    /\ Len(chunk_call.text) = 5
    /\ chunk_call.chunk_size = 2
    /\ Len(chunk_call.chunks[1]) = 3
    /\ Len(chunk_call.chunks[1][3]) = 1

----------------------------------------------------------------------------
(* The GUI query pipeline: Function/tools/rag.py, Function/chat.py,
   ui/components/md_panel.py and the single-file app main.py.  Texts are
   sequences of pieces; a Markdown heading starts with the piece "#". *)

\* search_documents(self, query, top_k = 5)
DefaultTopK == 5

GuiQueries == { <<"apa itu">> }

GuiChunk(k) == [doc_idx |-> 0, doc_id |-> "a.md", doc_type |-> "md",
                chunk_idx |-> k, text |-> <<"a">>]

\* The stores a retriever may hold: no vector at all, as many chunk records as
\* vectors, and more vectors than chunk records
GuiStores ==
    { [index |-> [d |-> 2, ntotal |-> 0, xb |-> <<>>], chunks_info |-> <<>>],
      [index |-> BuildIndex(<<<<1, 0>>, <<0, 3>>>>),
       chunks_info |-> <<GuiChunk(0), GuiChunk(1)>>],
      [index |-> BuildIndex(<<<<1, 0>>, <<0, 3>>>>),
       chunks_info |-> <<GuiChunk(0)>>] }

\* What is attached to the objects when they are built: the callbacks and the
\* viewer, whether they raise when called, and the loaded store
GuiConfigs ==
    [status_callback : { "absent", "ok", "raises" },
     markdown_viewer : { "absent", "ok", "page_raises" },
     store : GuiStores,
     chat : [status_callback : { "absent", "ok", "raises" },
             result_callback : { "absent", "ok", "raises" }]]

\* What the services answer during one call (None: the call raises)
GuiAnswers ==
    [file_write : { "ok", "fails" },
     embed : { None } \cup { Some(v) : v \in QueryVectors },
     generation : { None, Some(<<"jawaban">>) }]

\* What surrounds one call
GuiEnv(config, answers) ==
    [status_callback |-> config.status_callback,
     markdown_viewer |-> config.markdown_viewer,
     store |-> config.store,
     file_write |-> answers.file_write,
     embed |-> answers.embed,
     generation |-> answers.generation]

\* What index.search answers in an environment
GuiFound(env) ==
    IF env.embed = None THEN { None }
    ELSE { Some(f) : f \in FaissSearch(env.store.index,
                                       VecToFloat32(env.embed[1]), DefaultTopK) }

\* What a call has done: the messages given to the status callbacks, the
\* responses given to the result callback, the generation calls made, and the
\* panel and the Markdown file it leaves
WelcomeText == <<"#", " Selamat datang">>

GuiEffects0 ==
    [status |-> <<>>, chat_status |-> <<>>, chat_results |-> <<>>,
     panel |-> WelcomeText, file |-> WelcomeText, gen_calls |-> 0]

\* The effects at the start of a call: the panel and the file as they are
CallStart(st) == [GuiEffects0 EXCEPT !.panel = st.panel, !.file = st.file]

Returns(st, v) == [raised |-> "", value |-> v, st |-> st]
Raises(st, e) == [raised |-> e, value |-> <<>>, st |-> st]

\* str(len(results))
Str(n) == <<"0", "1", "2", "3", "4", "5", "6", "7", "8", "9">>[n + 1]

\* A statement's outcome bound once
Bind(e, K(_)) == CHOOSE out \in { K(r) : r \in { e } } : TRUE

\* Two statements in sequence: an exception raised by the first ends the block
Then(e, K(_)) == Bind(e, LAMBDA r : IF r.raised # "" THEN r ELSE K(r))

\* try: e  except Exception: H
Try(e, H(_)) == Bind(e, LAMBDA r : IF r.raised = "" THEN r ELSE H(r))

_update_status(env, st, message) ==
    IF env.status_callback = "absent" THEN Returns(st, <<>>)
    ELSE IF env.status_callback = "raises" THEN Raises(st, "CallbackError")
    ELSE Returns([st EXCEPT !.status = Append(@, message)], <<>>)

\* MarkdownViewer.update_content: the widget's value, the file (a failed write
\* is swallowed by FileManager.write_markdown_file), then page.update()
update_content(env, st, content) ==
    Bind([st EXCEPT !.panel = content,
                    !.file = IF env.file_write = "ok" THEN content ELSE @],
         LAMBDA st1 : IF env.markdown_viewer = "page_raises"
                      THEN Raises(st1, "PageError")
                      ELSE Returns(st1, <<>>))

update_markdown_panel(env, st, content) ==
    IF env.markdown_viewer # "absent"
    THEN Then(update_content(env, st, content), LAMBDA u :
            _update_status(env, u.st,
                           <<"Markdown panel diperbarui dengan konten baru">>))
    ELSE _update_status(env, st,
            <<"Tidak dapat memperbarui markdown panel: MarkdownViewer tidak tersedia">>)

rag_search_documents(env, found, st, query) ==
    Then(_update_status(env, st, <<"Mencari dokumen untuk: ">> \o query), LAMBDA s1 :
        IF env.embed = None THEN Raises(s1.st, "EmbedError")
        ELSE Bind(Gather(found[1], env.store.chunks_info, 0, <<>>), LAMBDA g :
                IF g.raised # "" THEN Raises(s1.st, g.raised)
                ELSE Then(_update_status(env, s1.st,
                             <<"Ditemukan ", Str(Len(g.results)), " dokumen relevan">>),
                          LAMBDA s2 : Returns(s2.st, g.results))))

\* for i, chunk in enumerate(context_chunks): response_text += f"- {doc_id}\n"
RECURSIVE Sources(_)
Sources(results) ==
    IF results = <<>> THEN <<>>
    ELSE <<"- ", Head(results).id, "\n">> \o Sources(Tail(results))

\* self.model.generate_content(prompt) and the formatting of its text
Generate(env, st, query, results) ==
    Bind([st EXCEPT !.gen_calls = @ + 1], LAMBDA st2 :
        IF env.generation = None THEN Raises(st2, "GenerationError")
        ELSE Returns(st2, <<"#", " Jawaban untuk: ">> \o query \o <<"\n\n">>
                          \o env.generation[1]
                          \o <<"\n\n## Sumber Informasi\n\n">> \o Sources(results)))

rag_generate_response(env, st, query, results) ==
    Then(_update_status(env, st, <<"Menghasilkan respons...">>), LAMBDA s1 :
        Try(Then(Generate(env, s1.st, query, results), LAMBDA g :
                Then(_update_status(env, g.st, <<"Respons berhasil dihasilkan">>),
                     LAMBDA s3 : Returns(s3.st, g.value))),
            LAMBDA e :
                Then(_update_status(env, e.st,
                        <<"Error saat menghasilkan respons: ", e.raised>>),
                     LAMBDA s4 : Returns(s4.st,
                        <<"#", " Error\n\n", "Error saat menghasilkan respons: ",
                          e.raised>>))))

NoInformation(query) ==
    <<"#", " Tidak ada informasi\n\n",
      "Maaf, saya tidak menemukan informasi yang relevan untuk pertanyaan: ">> \o query

ProcessingError(e) ==
    <<"#", " Error\n\n", "Terjadi kesalahan saat memproses query: ", e.raised>>

\* SimpleRAG.process_query of Function/tools/rag.py
rag_process_query(env, found, st, query) ==
    Try(Then(rag_search_documents(env, found, st, query), LAMBDA s :
            Then(IF s.value = <<>> THEN Returns(s.st, NoInformation(query))
                 ELSE rag_generate_response(env, s.st, query, s.value),
                 LAMBDA r :
                    Then(update_markdown_panel(env, r.st, r.value),
                         LAMBDA u : Returns(u.st, r.value)))),
        LAMBDA e :
            IF env.markdown_viewer # "absent"
            THEN Then(update_markdown_panel(env, e.st, ProcessingError(e)),
                      LAMBDA u : Returns(u.st, ProcessingError(e)))
            ELSE Returns(e.st, ProcessingError(e)))

\* ChatManager's status_callback(message), called only when one is attached
ChatStatus(chat, st, message) ==
    IF chat.status_callback = "absent" THEN Returns(st, <<>>)
    ELSE IF chat.status_callback = "raises" THEN Raises(st, "CallbackError")
    ELSE Returns([st EXCEPT !.chat_status = Append(@, message)], <<>>)

ChatResult(chat, st, response) ==
    IF chat.result_callback = "absent" THEN Returns(st, <<>>)
    ELSE IF chat.result_callback = "raises" THEN Raises(st, "CallbackError")
    ELSE Returns([st EXCEPT !.chat_results = Append(@, response)], <<>>)

\* ChatManager.process_query of Function/chat.py
chat_process_query(env, chat, found, st, query) ==
    Try(Then(ChatStatus(chat, st, <<"Memproses query: ">> \o query), LAMBDA c1 :
            Then(rag_process_query(env, found, c1.st, query), LAMBDA r :
                Then(ChatResult(chat, r.st, r.value),
                     LAMBDA c2 : Returns(c2.st, r.value)))),
        LAMBDA e :
            Then(ChatStatus(chat, e.st, <<"Error saat memproses query: ", e.raised>>),
                 LAMBDA c3 : Returns(c3.st,
                    <<"#", " Error\n\n", "Error saat memproses query: ", e.raised>>)))

\* SimpleRAG.process_query of the single-file app: no panel, and nothing is
\* called in the handler
app_process_query(env, found, st, query) ==
    Try(Then(rag_search_documents(env, found, st, query), LAMBDA s :
            IF s.value = <<>> THEN Returns(s.st, NoInformation(query))
            ELSE rag_generate_response(env, s.st, query, s.value)),
        LAMBDA e : Returns(e.st, ProcessingError(e)))

GuiCall(op, answers, query, out) ==
    [gui EXCEPT !.op = op, !.answers = Some(answers), !.query = query,
                !.raised = out.raised, !.value = out.value, !.st = out.st]

RagProcessQuery ==
    /\ \E answers \in GuiAnswers, query \in GuiQueries :
          LET env == GuiEnv(gui.config, answers)
          IN  \E found \in GuiFound(env) :
                 gui' = GuiCall("rag.process_query", answers, query,
                                rag_process_query(env, found, CallStart(gui.st), query))
    /\ UNCHANGED <<storeVars, chunk_call, parse_call, tool, program>>

ChatProcessQuery ==
    /\ \E answers \in GuiAnswers, query \in GuiQueries :
          LET env == GuiEnv(gui.config, answers)
          IN  \E found \in GuiFound(env) :
                 gui' = GuiCall("chat.process_query", answers, query,
                                chat_process_query(env, gui.config.chat, found,
                                                   CallStart(gui.st), query))
    /\ UNCHANGED <<storeVars, chunk_call, parse_call, tool, program>>

\* The single-file app builds its SimpleRAG without a viewer or a ChatManager
AppProcessQuery ==
    /\ gui.config.markdown_viewer = "absent"
    /\ \E answers \in GuiAnswers, query \in GuiQueries :
          LET env == GuiEnv(gui.config, answers)
          IN  \E found \in GuiFound(env) :
                 gui' = GuiCall("app.process_query", answers, query,
                                app_process_query(env, found, CallStart(gui.st), query))
    /\ UNCHANGED <<storeVars, chunk_call, parse_call, tool, program>>

\* The GUI objects after their construction, one per configuration
GuiInits ==
    { [op |-> "init", config |-> c, answers |-> None, query |-> <<>>,
       raised |-> "", value |-> <<>>, st |-> GuiEffects0] :
      c \in GuiConfigs }

InitGui ==
    /\ InitWith({ <<>> })
    /\ chunk_call = NoCall
    /\ parse_call = NoCall
    /\ tool = NoCall
    /\ program = NoCall
    /\ gui \in GuiInits

NextGui == RagProcessQuery \/ ChatProcessQuery \/ AppProcessQuery

SpecGui == InitGui /\ [][NextGui]_vars

\* C6: SimpleRAG.process_query and ChatManager.process_query return a string
\* whatever the embedding, the search, the generation, the panel update and
\* the callbacks do: no exception reaches the caller.
C6_NoExceptionReachesCaller ==
    gui.op \in { "rag.process_query", "chat.process_query" } => gui.raised = ""

----------------------------------------------------------------------------
(* The tool-calling assistant of LLM/main.py: the directive parser.  A string
   is a sequence of pieces: the literal FUNCTION_CALL, single punctuation and
   whitespace characters, single digits, and words that nothing splits. *)

Whitespace == { " ", "\n", "\t" }

SetMin(S) == CHOOSE x \in S : \A y \in S : x <= y

\* No character the pattern's '.' refuses between positions lo and hi
NoNewline(text, lo, hi) == \A i \in lo..hi : text[i] # "\n"

\* Where the second group can end when the first group ends before position j
ArgEnds(text, j) ==
    { k \in (j + 2)..Len(text) : text[k] = ")" /\ NoNewline(text, j + 2, k - 1) }

\* Where the first group can end when the pattern is tried at position p
NameEnds(text, p) ==
    { j \in (p + 2)..(Len(text) - 2) :
        /\ text[j] = "]"
        /\ text[j + 1] = "("
        /\ NoNewline(text, p + 2, j - 1)
        /\ ArgEnds(text, j) # {} }

\* The positions where FUNCTION_CALL\[(.*?)\]\((.*?)\) matches
MatchStarts(text) ==
    { p \in 1..(Len(text) - 1) :
        text[p] = "FUNCTION_CALL" /\ text[p + 1] = "[" /\ NameEnds(text, p) # {} }

\* findall(...)[-1]: the rightmost match
FirstMatchTakingLast(text) ==
    LET p == CHOOSE x \in MatchStarts(text) : \A y \in MatchStarts(text) : y <= x
        j == SetMin(NameEnds(text, p))
        k == SetMin(ArgEnds(text, j))
    IN  [function_name |-> SubSeq(text, p + 2, j - 1),
         args_str |-> SubSeq(text, j + 2, k - 1)]

\* re.findall(pattern, text)[0]: the leftmost match, each group as short as it
\* can be
FirstMatch(text) ==
    LET p == SetMin(MatchStarts(text))
        j == SetMin(NameEnds(text, p))
        k == SetMin(ArgEnds(text, j))
    IN  [function_name |-> SubSeq(text, p + 2, j - 1),
         args_str |-> SubSeq(text, j + 2, k - 1)]

\* str.split(sep)
RECURSIVE Split(_, _)
Split(str, sep) ==
    IF \E i \in 1..Len(str) : str[i] = sep
    THEN LET i == SetMin({ n \in 1..Len(str) : str[n] = sep })
         IN  <<SubSeq(str, 1, i - 1)>> \o Split(SubSeq(str, i + 1, Len(str)), sep)
    ELSE <<str>>

\* A split that cuts the pair at its last ':'
SplitLast(pair) ==
    LET i == CHOOSE n \in 1..Len(pair) :
                pair[n] = ":" /\ \A m \in (n + 1)..Len(pair) : pair[m] # ":"
    IN  <<SubSeq(pair, 1, i - 1), SubSeq(pair, i + 1, Len(pair))>>

\* pair.split(':', 1) for a pair that holds a ':'
SplitOnce(pair) ==
    LET i == SetMin({ n \in 1..Len(pair) : pair[n] = ":" })
    IN  <<SubSeq(pair, 1, i - 1), SubSeq(pair, i + 1, Len(pair))>>

\* str.strip()
RECURSIVE Strip(_)
Strip(str) ==
    IF str = <<>> THEN str
    ELSE IF Head(str) \in Whitespace THEN Strip(Tail(str))
    ELSE IF str[Len(str)] \in Whitespace THEN Strip(SubSeq(str, 1, Len(str) - 1))
    ELSE str

EmptyDict == [key \in {} |-> <<>>]

\* args[key] = value
SetItem(args, key, value) ==
    [x \in (DOMAIN args) \cup { key } |-> IF x = key THEN value ELSE args[x]]

\* for pair in arg_pairs: the dict after the pairs in order
RECURSIVE ParsePairs(_)
ParsePairs(arg_pairs) ==
    IF arg_pairs = <<>> THEN EmptyDict
    ELSE Bind(ParsePairs(SubSeq(arg_pairs, 1, Len(arg_pairs) - 1)), LAMBDA args :
            Bind(arg_pairs[Len(arg_pairs)], LAMBDA pair :
                IF \E i \in 1..Len(pair) : pair[i] = ":"
                THEN SetItem(args, Strip(SplitOnce(pair)[1]), Strip(SplitOnce(pair)[2]))
                ELSE SetItem(args, <<"value">>, Strip(pair))))

ParseFunctionCall(response_text) ==
    IF MatchStarts(response_text) # {}
    THEN Bind(FirstMatch(response_text), LAMBDA m :
            [detected |-> TRUE,
             function |-> Strip(m.function_name),
             args |-> IF m.args_str # <<>> THEN ParsePairs(Split(m.args_str, ","))
                      ELSE EmptyDict])
    ELSE [detected |-> FALSE]

\* The parser specification: directives written out from a name and items
DirectiveNames == { <<"f">>, <<" ", "f", "\t">> }

ItemKeys == { None, Some(<<"q">>), Some(<<"value">>) }

ItemValues == { <<>>, <<"a">>, <<"b", ":", "c">> }

Pads == { <<>>, <<" ">>, <<"\n">> }

\* An item k:v, or a bare item v when it has no key; a bare item has some text
DirectiveItems ==
    { it \in [key : ItemKeys, value : ItemValues, pad : Pads] :
        it.key = None => it.value # <<>> /\ \A i \in 1..Len(it.value) : it.value[i] # ":" }

WriteItem(it) ==
    IF it.key = None THEN it.pad \o it.value \o it.pad
    ELSE it.pad \o it.key[1] \o it.pad \o <<":">> \o it.pad \o it.value \o it.pad

RECURSIVE WriteItems(_)
WriteItems(items) ==
    IF items = <<>> THEN <<>>
    ELSE IF Len(items) = 1 THEN WriteItem(items[1])
    ELSE WriteItem(items[1]) \o <<",">> \o WriteItems(Tail(items))

WriteDirective(name, items) ==
    <<"FUNCTION_CALL", "[">> \o name \o <<"]", "(">> \o WriteItems(items) \o <<")">>

\* What may stand before and after a directive
TextsBefore == { <<>>, <<"ok", "(", "x", ")", "\n">> }

TextsAfter == { <<>>, <<" ", "FUNCTION_CALL", "[", "g", "]", "(", "q", ":", "z", ")">> }

\* Texts without a directive
PlainTexts ==
    { <<>>, <<"ok">>, <<"FUNCTION_CALL", "[", "f", "]">>,
      <<"FUNCTION_CALL", "(", "q", ":", "a", ")">>,
      <<"[", "f", "]", "(", "q", ":", "a", ")">> }

Directives ==
    [name : DirectiveNames,
     items : UNION { [1..n -> DirectiveItems] : n \in 0..MaxItems }]

\* The calls of parse_function_call: on a text with a directive written in it,
\* and on a text without one
ParseCalls ==
    { [op |-> "call", directive |-> Some(d),
       text |-> before \o WriteDirective(d.name, d.items) \o after,
       result |-> None] :
      d \in Directives, before \in TextsBefore, after \in TextsAfter }
    \cup { [op |-> "call", directive |-> None, text |-> t, result |-> None] :
           t \in PlainTexts }

InitParse ==
    /\ InitWith({ <<>> })
    /\ chunk_call = NoCall
    /\ tool = NoCall
    /\ gui = NoCall
    /\ program = NoCall
    /\ parse_call \in ParseCalls

parse_function_call ==
    /\ parse_call.op = "call"
    /\ parse_call' = [parse_call EXCEPT
                        !.op = "returned",
                        !.result = Some(ParseFunctionCall(parse_call.text))]
    /\ UNCHANGED <<storeVars, chunk_call, tool, gui, program>>

NextParse == parse_function_call

SpecParse == InitParse /\ [][NextParse]_vars

----------------------------------------------------------------------------
(* The tool-calling assistant of LLM/main.py: the registry, the dispatcher,
   the five tools and generate_response.  A Python value is a record naming
   its type. *)

PyStr(str) == [type |-> "str", v |-> str]
PyInt(n) == [type |-> "int", v |-> n]
PyFloat(n) == [type |-> "float", v |-> n]
PyList(elems) == [type |-> "list", v |-> elems]
\* A dict is the sequence of its <<key, value>> pairs in insertion order
PyDict(pairs) == [type |-> "dict", v |-> pairs]

\* self.registered_functions: each name's declared parameters
RegisteredFunctions ==
    (<<"search_documents">> :> <<<<"query">>, <<"top_k">>>>) @@
    (<<"get_current_time">> :> <<>>) @@
    (<<"open_browser">> :> <<<<"url">>>>) @@
    (<<"summarize_document">> :> <<<<"doc_id">>>>) @@
    (<<"list_available_documents">> :> <<>>)

AsciiDigits == { "0", "1", "2", "3", "4", "5", "6", "7", "8", "9" }

\* The characters str.isdigit() accepts: the decimal digits and the digits that
\* are no decimals, such as the superscript two
DigitChars == AsciiDigits \cup { "²" }

DigitValue(c) ==
    CASE c = "0" -> 0 [] c = "1" -> 1 [] c = "2" -> 2 [] c = "3" -> 3
      [] c = "4" -> 4 [] c = "5" -> 5 [] c = "6" -> 6 [] c = "7" -> 7
      [] c = "8" -> 8 [] c = "9" -> 9

\* str.isdigit()
IsDigit(str) == str # <<>> /\ \A i \in 1..Len(str) : str[i] \in DigitChars

\* int(str) returns for decimal digits only, and raises ValueError otherwise
IntReturns(str) == str # <<>> /\ \A i \in 1..Len(str) : str[i] \in AsciiDigits

RECURSIVE IntOf(_)
IntOf(str) ==
    IF str = <<>> THEN 0
    ELSE 10 * IntOf(SubSeq(str, 1, Len(str) - 1)) + DigitValue(str[Len(str)])

\* str(n) for n >= 0
RECURSIVE Digits(_)
Digits(n) ==
    IF n < 10 THEN <<Str(n)>> ELSE Digits(n \div 10) \o <<Str(n % 10)>>

\* for param in function_info["parameters"]: if param in args: ..., up to the
\* first conversion that raises
RECURSIVE ProcessArgs(_, _)
ProcessArgs(parameters, args) ==
    IF parameters = <<>> THEN [raised |-> "", processed_args |-> EmptyDict]
    ELSE Bind(ProcessArgs(SubSeq(parameters, 1, Len(parameters) - 1), args), LAMBDA acc :
            Bind(parameters[Len(parameters)], LAMBDA param :
                IF acc.raised # "" \/ param \notin DOMAIN args THEN acc
                ELSE IF IsDigit(args[param])
                THEN IF IntReturns(args[param])
                     THEN [acc EXCEPT !.processed_args =
                              SetItem(@, param, PyInt(IntOf(args[param])))]
                     ELSE [acc EXCEPT !.raised = "ValueError"]
                ELSE [acc EXCEPT !.processed_args =
                         SetItem(@, param, PyStr(args[param]))]))

\* What the services answer while the assistant runs (None: the call raises)
ToolAnswers ==
    [embed : { None, Some(<<0, 1>>) },
     browser : { "ok", "raises" },
     summary : { None, Some(<<"ringkasan">>) }]

\* The loaded store of the assistant
ToolStore ==
    [index |-> BuildIndex(<<<<1, 0>>, <<0, 3>>>>),
     chunks_info |-> <<[doc_idx |-> 0, doc_id |-> <<"a.md">>, doc_type |-> "md",
                        chunk_idx |-> 0, text |-> <<"a">>],
                       [doc_idx |-> 0, doc_id |-> <<"a.md">>, doc_type |-> "md",
                        chunk_idx |-> 1, text |-> <<"b">>]>>,
     documents |-> <<[id |-> <<"a.md">>, source |-> <<"data/", "a.md">>,
                      text |-> <<"a", "b">>, chunks_count |-> Some(2)]>>]

\* What a call has done so far: the dispatches, the registered functions
\* invoked, the generation calls, the URLs opened
ToolEffects0 == [dispatches |-> <<>>, calls |-> <<>>, gen_calls |-> <<>>, opened |-> <<>>]

Invoked(st, name, kwargs) ==
    [st EXCEPT !.calls = Append(@, [function |-> name, kwargs |-> kwargs])]

ResultDict(r) ==
    PyDict(<< <<"id", PyStr(r.id)>>, <<"chunk_idx", PyInt(r.chunk_idx)>>,
              <<"text", PyStr(r.text)>>, <<"score", PyFloat(r.score)>> >>)

\* search_documents(self, query, top_k = 5) called with keyword arguments; the
\* store's vectors lie at different distances from the query vector, so
\* index.search has one answer
ToolSearchDocuments(env, store, st, kwargs) ==
    IF <<"query">> \notin DOMAIN kwargs THEN Raises(st, "TypeError")
    ELSE Bind(IF <<"top_k">> \in DOMAIN kwargs THEN kwargs[<<"top_k">>]
              ELSE PyInt(DefaultTopK), LAMBDA top_k :
            IF env.embed = None THEN Raises(st, "EmbedError")
            ELSE IF top_k.type # "int" THEN Raises(st, "TypeError")
            ELSE IF top_k.v = 0 THEN Raises(st, "AssertionError")
            ELSE Bind(FaissSearch(store.index, VecToFloat32(env.embed[1]), top_k.v),
                      LAMBDA answers :
                    Bind(Gather(CHOOSE found \in answers : TRUE,
                                store.chunks_info, 0, <<>>), LAMBDA g :
                        IF g.raised # "" THEN Raises(st, g.raised)
                        ELSE Returns(st, PyList([i \in 1..Len(g.results) |->
                                                    ResultDict(g.results[i])])))))

GetCurrentTime(st) ==
    Returns(st, PyDict(<< <<"time", PyStr(<<"12:00:00">>)>>,
                          <<"date", PyStr(<<"2025-01-01">>)>>,
                          <<"day_of_week", PyStr(<<"Wednesday">>)>>,
                          <<"timestamp", PyStr(<<"2025-01-01T12:00:00">>)>> >>))

ErrorStatus(message) ==
    PyDict(<< <<"status", PyStr(<<"error">>)>>, <<"message", PyStr(message)>> >>)

\* open_browser(self, url): the whole body is inside try/except
OpenBrowser(env, st, kwargs) ==
    IF <<"url">> \notin DOMAIN kwargs THEN Raises(st, "TypeError")
    ELSE Bind(kwargs[<<"url">>], LAMBDA url :
            IF url.type # "str"
            THEN Returns(st, ErrorStatus(<<"Gagal membuka browser: ", "AttributeError">>))
            ELSE Bind(IF url.v # <<>> /\ Head(url.v) \in { "http://", "https://" }
                      THEN url.v ELSE <<"https://">> \o url.v, LAMBDA full :
                    IF env.browser = "raises"
                    THEN Returns(st, ErrorStatus(<<"Gagal membuka browser: ", "BrowserError">>))
                    ELSE Returns([st EXCEPT !.opened = Append(@, full)],
                            PyDict(<< <<"status", PyStr(<<"success">>)>>,
                                      <<"message", PyStr(<<"Browser dibuka dengan URL: ">>
                                                         \o full)>> >>))))

\* summarize_document(self, doc_id): the lookup, then a generation call inside
\* try/except
SummarizeDocument(env, store, st, kwargs) ==
    IF <<"doc_id">> \notin DOMAIN kwargs THEN Raises(st, "TypeError")
    ELSE Bind(kwargs[<<"doc_id">>], LAMBDA doc_id :
            Bind({ i \in 1..Len(store.documents) :
                     doc_id.type = "str" /\ store.documents[i].id = doc_id.v },
                 LAMBDA hits :
                IF hits = {}
                THEN Returns(st, ErrorStatus(<<"Dokumen dengan ID ">>
                        \o (IF doc_id.type = "str" THEN doc_id.v ELSE Digits(doc_id.v))
                        \o <<" tidak ditemukan">>))
                ELSE Bind(store.documents[SetMin(hits)], LAMBDA doc :
                        Bind([st EXCEPT !.gen_calls =
                                 Append(@, [site |-> "summary", prompt |-> doc.text])],
                             LAMBDA st2 :
                            IF env.summary = None
                            THEN Returns(st2, ErrorStatus(<<"Gagal meringkas dokumen: ",
                                                            "GenerationError">>))
                            ELSE Returns(st2,
                                    PyDict(<< <<"status", PyStr(<<"success">>)>>,
                                              <<"doc_id", doc_id>>,
                                              <<"summary", PyStr(env.summary[1])>>,
                                              <<"characters", PyInt(Len(doc.text))>>,
                                              <<"source", PyStr(doc.source)>> >>))))))

ListAvailableDocuments(store, st) ==
    Returns(st,
        PyDict(<< <<"status", PyStr(<<"success">>)>>,
                  <<"count", PyInt(Len(store.documents))>>,
                  <<"documents",
                    PyList([i \in 1..Len(store.documents) |->
                        PyDict(<< <<"id", PyStr(store.documents[i].id)>>,
                                  <<"source", PyStr(store.documents[i].source)>>,
                                  <<"size", PyInt(Len(store.documents[i].text))>>,
                                  <<"chunks",
                                    PyInt(IF store.documents[i].chunks_count = None THEN 0
                                          ELSE store.documents[i].chunks_count[1])>> >>)])>> >>))

\* function_to_call(**processed_args)
CallFunction(env, store, st, name, kwargs) ==
    Bind(Invoked(st, name, kwargs), LAMBDA st1 :
        CASE name = <<"search_documents">> -> ToolSearchDocuments(env, store, st1, kwargs)
          [] name = <<"get_current_time">> -> GetCurrentTime(st1)
          [] name = <<"open_browser">> -> OpenBrowser(env, st1, kwargs)
          [] name = <<"summarize_document">> -> SummarizeDocument(env, store, st1, kwargs)
          [] name = <<"list_available_documents">> -> ListAvailableDocuments(store, st1))

ErrorResult(message) == PyDict(<< <<"error", PyStr(message)>> >>)

\* A dispatcher that looks the name up without testing it first
ExecuteFunctionUnknownRaises(env, store, st, function_name, args) ==
    Bind([st EXCEPT !.dispatches =
             Append(@, [function |-> function_name, args |-> args])], LAMBDA st1 :
        IF function_name \notin DOMAIN RegisteredFunctions
        THEN Raises(st1, "KeyError")
        ELSE Bind(ProcessArgs(RegisteredFunctions[function_name], args), LAMBDA p :
                IF p.raised # "" THEN Raises(st1, p.raised)
                ELSE Try(CallFunction(env, store, st1, function_name, p.processed_args),
                         LAMBDA e : Returns(e.st,
                            ErrorResult(<<"Error executing function: ", e.raised>>)))))

ExecuteFunction(env, store, st, function_name, args) ==
    Bind([st EXCEPT !.dispatches =
             Append(@, [function |-> function_name, args |-> args])], LAMBDA st1 :
        IF function_name \notin DOMAIN RegisteredFunctions
        THEN Returns(st1, ErrorResult(<<"Function ">> \o function_name \o <<" not found">>))
        ELSE Bind(ProcessArgs(RegisteredFunctions[function_name], args), LAMBDA p :
                IF p.raised # "" THEN Raises(st1, p.raised)
                ELSE Try(CallFunction(env, store, st1, function_name, p.processed_args),
                         LAMBDA e : Returns(e.st,
                            ErrorResult(<<"Error executing function: ", e.raised>>)))))

\* json.dumps(result, indent = 2, ensure_ascii = False), without the layout
RECURSIVE JsonDumps(_), JsonElems(_), JsonPairs(_)
JsonDumps(value) ==
    CASE value.type = "str" -> <<"\"">> \o value.v \o <<"\"">>
      [] value.type = "int" -> Digits(value.v)
      [] value.type = "float" -> Digits(value.v) \o <<".0">>
      [] value.type = "list" -> <<"[">> \o JsonElems(value.v) \o <<"]">>
      [] value.type = "dict" -> <<"{">> \o JsonPairs(value.v) \o <<"}">>

JsonElems(elems) ==
    IF elems = <<>> THEN <<>>
    ELSE IF Len(elems) = 1 THEN JsonDumps(elems[1])
    ELSE JsonDumps(elems[1]) \o <<",">> \o JsonElems(Tail(elems))

JsonPairs(pairs) ==
    IF pairs = <<>> THEN <<>>
    ELSE <<"\"", pairs[1][1], "\"", ":">> \o JsonDumps(pairs[1][2])
         \o (IF Len(pairs) = 1 THEN <<>> ELSE <<",">> \o JsonPairs(Tail(pairs)))

\* What the generation service answers to the first prompt: nothing (the call
\* raises), plain text, or text with directives
ToolCalls ==
    { [name |-> <<"search_documents">>, items |-> <<>>],
      [name |-> <<"search_documents">>,
       items |-> <<[key |-> Some(<<"query">>), value |-> <<"a">>, pad |-> <<" ">>],
                   [key |-> Some(<<"top_k">>), value |-> <<"3">>, pad |-> <<" ">>]>>],
      [name |-> <<"search_documents">>,
       items |-> <<[key |-> Some(<<"query">>), value |-> <<"a">>, pad |-> <<" ">>],
                   [key |-> Some(<<"top_k">>), value |-> <<"²">>, pad |-> <<" ">>]>>],
      [name |-> <<"search_documents">>,
       items |-> <<[key |-> None, value |-> <<"a">>, pad |-> <<>>]>>],
      [name |-> <<"get_current_time">>, items |-> <<>>],
      [name |-> <<"open_browser">>,
       items |-> <<[key |-> Some(<<"url">>), value |-> <<"x.com">>, pad |-> <<>>]>>],
      [name |-> <<"summarize_document">>,
       items |-> <<[key |-> Some(<<"doc_id">>), value |-> <<"a.md">>, pad |-> <<>>]>>],
      [name |-> <<"list_available_documents">>, items |-> <<>>],
      [name |-> <<"terbang">>, items |-> <<>>] }

FirstTexts ==
    { <<"Halo">> }
    \cup { <<"Baik. ">> \o WriteDirective(c.name, c.items) : c \in ToolCalls }
    \cup { WriteDirective(<<"get_current_time">>, <<>>) \o <<"\n">>
           \o WriteDirective(<<"list_available_documents">>, <<>>) }

\* What the service answers to the follow-up prompt: text that may itself hold
\* a directive
FollowUpTexts == { <<"Jawaban">>, WriteDirective(<<"get_current_time">>, <<>>) }

FirstPrompt(query, context_chunks) ==
    <<"Berdasarkan informasi berikut, jawablah pertanyaan pengguna.", "Informasi:">>
    \o Flatten([i \in 1..Len(context_chunks) |->
                  <<"Chunk ", Str(i), " (dari ">> \o context_chunks[i].id
                  \o <<"):\n">> \o context_chunks[i].text])
    \o <<"Pertanyaan pengguna: ">> \o query

FollowUpPrompt(function_name, query, result_str) ==
    <<"Kamu telah memanggil fungsi ">> \o function_name
    \o <<" untuk pertanyaan: ", "\"">> \o query \o <<"\"">>
    \o <<"Hasil dari fungsi tersebut adalah:">> \o result_str
    \o <<"Berdasarkan hasil tersebut dan konteks sebelumnya, berikan jawaban final untuk pengguna.">>

\* self.model.generate_content(prompt) at one of the call sites
GenerateContent(st, site, prompt, answer) ==
    Bind([st EXCEPT !.gen_calls = Append(@, [site |-> site, prompt |-> prompt])],
         LAMBDA st1 : IF answer = None THEN Raises(st1, "GenerationError")
                      ELSE Returns(st1, answer[1]))

\* A handler that raises the exception again
Reraise(e) == e

\* except Exception as e: return f"Error saat menghasilkan respons: {str(e)}"
ErrorResponse(e) == Returns(e.st, <<"Error", " saat menghasilkan respons: ", e.raised>>)

\* generate_response of the tool-calling variant: everything from the first
\* generation call on is inside try/except
GenerateResponse(env, store, st, query, context_chunks, first, follow_up) ==
    Try(Then(GenerateContent(st, "first", FirstPrompt(query, context_chunks), first),
             LAMBDA response :
            Bind(ParseFunctionCall(response.value), LAMBDA function_result :
                IF function_result.detected
                THEN Then(ExecuteFunction(env, store, response.st,
                                          function_result.function, function_result.args),
                          LAMBDA result :
                        GenerateContent(result.st, "follow_up",
                            FollowUpPrompt(function_result.function, query,
                                           JsonDumps(result.value)),
                            follow_up))
                ELSE Returns(response.st, response.value))),
        LAMBDA e : ErrorResponse(e))

\* The arguments execute_function may be given: what parse_function_call
\* builds, strings under stripped keys
ArgValues == { <<"a">>, <<"3">>, <<"1", "0">>, <<"²">>, <<"a.md">> }

ArgKeys == { <<"query">>, <<"top_k">>, <<"url">>, <<"doc_id">>, <<"value">> }

ToolArgs ==
    UNION { [keys -> ArgValues] : keys \in { K \in SUBSET ArgKeys : Cardinality(K) <= MaxArgs } }

FunctionNames == (DOMAIN RegisteredFunctions) \cup { <<"terbang">> }

ToolQueries == { <<"jam berapa">> }

ToolContexts ==
    { <<>>, <<[id |-> <<"a.md">>, chunk_idx |-> 0, text |-> <<"a">>, score |-> 0]>> }

\* An assistant whose calls consume the chunks of the store
ToolCallDroppingChunks(op, input, out) ==
    [tool EXCEPT !.op = op, !.input = input, !.raised = out.raised,
                 !.value = out.value, !.st = out.st,
                 !.store = [@ EXCEPT !.chunks_info = <<>>]]

ToolCall(op, input, out) ==
    [tool EXCEPT !.op = op, !.input = input, !.raised = out.raised,
                 !.value = out.value, !.st = out.st]

\* The assistant keeps nothing from one call to the next (the registry and the
\* store are only read), so a behaviour observes one call on a fresh assistant
execute_function ==
    /\ tool.op = "init"
    /\ \E function_name \in FunctionNames, args \in ToolArgs :
          tool' = ToolCall("execute_function",
                           [function_name |-> function_name, args |-> args],
                           ExecuteFunction(tool.answers, tool.store, ToolEffects0,
                                           function_name, args))
    /\ UNCHANGED <<storeVars, chunk_call, parse_call, gui, program>>

generate_response ==
    /\ tool.op = "init"
    /\ \E query \in ToolQueries, context_chunks \in ToolContexts,
          first \in { None } \cup { Some(t) : t \in FirstTexts },
          follow_up \in { None } \cup { Some(t) : t \in FollowUpTexts } :
          tool' = ToolCall("generate_response",
                           [query |-> query, context_chunks |-> context_chunks,
                            first |-> first, follow_up |-> follow_up],
                           GenerateResponse(tool.answers, tool.store, ToolEffects0,
                                            query, context_chunks, first, follow_up))
    /\ UNCHANGED <<storeVars, chunk_call, parse_call, gui, program>>

\* The parameters without a default in each tool's signature
RequiredParameters ==
    (<<"search_documents">> :> { <<"query">> }) @@
    (<<"get_current_time">> :> {}) @@
    (<<"open_browser">> :> { <<"url">> }) @@
    (<<"summarize_document">> :> { <<"doc_id">> }) @@
    (<<"list_available_documents">> :> {})

\* The keyword arguments a tool may be called with: strings and integers under
\* its declared parameters, the required ones present
ToolKwargs(name) ==
    { p.processed_args :
        p \in { q \in { ProcessArgs(RegisteredFunctions[name], args) : args \in ToolArgs } :
                  /\ q.raised = ""
                  /\ RequiredParameters[name] \subseteq DOMAIN q.processed_args } }

\* One of the five tools called by a caller of its own, as run_cli calls
\* search_documents
CallTool ==
    /\ tool.op = "init"
    /\ \E name \in DOMAIN RegisteredFunctions :
          \E kwargs \in ToolKwargs(name) :
             tool' = ToolCall("call_tool", [function_name |-> name, kwargs |-> kwargs],
                              CallFunction(tool.answers, tool.store, ToolEffects0,
                                           name, kwargs))
    /\ UNCHANGED <<storeVars, chunk_call, parse_call, gui, program>>

\* The assistant after its construction, one per way the services answer
ToolInits ==
    { [op |-> "init", answers |-> a, store |-> ToolStore,
       registered_functions |-> RegisteredFunctions, input |-> <<>>,
       raised |-> "", value |-> <<>>, st |-> ToolEffects0] :
      a \in ToolAnswers }

InitTool ==
    /\ InitWith({ <<>> })
    /\ chunk_call = NoCall
    /\ parse_call = NoCall
    /\ gui = NoCall
    /\ program = NoCall
    /\ tool \in ToolInits

NextTool == execute_function \/ generate_response \/ CallTool

SpecTool == InitTool /\ [][NextTool]_vars

\* What the dispatch of the directive in the first response does on its own
DispatchOf(function_result) ==
    ExecuteFunction(tool.answers, tool.store, ToolEffects0,
                    function_result.function, function_result.args)

FollowUpCalls == SelectSeq(tool.st.gen_calls, LAMBDA c : c.site = "follow_up")

Contains(str, part) ==
    \E i \in 1..(Len(str) - Len(part) + 1) : SubSeq(str, i, i + Len(part) - 1) = part

\* C7: generate_response of the tool-calling variant never raises: when the
\* first generation call, the dispatch or the follow-up generation call fails,
\* it returns a string that begins with "Error".
C7_NeverRaises ==
    tool.op = "generate_response" =>
        /\ tool.raised = ""
        /\ tool.value # <<>>
        /\ LET first == tool.input.first
               failed ==
                  \/ first = None
                  \/ /\ ParseFunctionCall(first[1]).detected
                     /\ \/ DispatchOf(ParseFunctionCall(first[1])).raised # ""
                        \/ tool.input.follow_up = None
           IN  failed => Head(tool.value) = "Error"

\* A dispatch returned and the follow-up generation call then raised
C7_Witness ==
    /\ tool.op = "generate_response"
    /\ tool.input.first # None
    /\ tool.input.follow_up = None
    /\ Len(tool.st.dispatches) = 1
    /\ Len(tool.st.calls) = 1
    /\ Len(FollowUpCalls) = 1
    /\ Head(tool.value) = "Error"

\* C8: when the first response holds a directive, exactly one dispatch
\* happens, then exactly one follow-up generation call whose prompt contains
\* the serialized dispatch result, and the follow-up text is returned as it is;
\* when it holds none, nothing is dispatched, no second generation call is
\* made and the first response is returned unchanged.
C8_OneDispatchOneFollowUp ==
    (tool.op = "generate_response" /\ tool.input.first # None) =>
        LET function_result == ParseFunctionCall(tool.input.first[1])
        IN  IF function_result.detected
            THEN /\ Len(tool.st.dispatches) = 1
                 /\ Len(FollowUpCalls) = 1
                 /\ Contains(FollowUpCalls[1].prompt,
                             JsonDumps(DispatchOf(function_result).value))
                 /\ tool.input.follow_up # None => tool.value = tool.input.follow_up[1]
            ELSE /\ tool.st.dispatches = <<>>
                 /\ Len(tool.st.gen_calls) = 1
                 /\ tool.value = tool.input.first[1]

\* C10: execute_function for a registered name calls the function with exactly
\* the parsed arguments whose key is a declared parameter, int(v) for a value
\* of digits only and the string v otherwise.
C10_ForwardsDeclared ==
    (tool.op = "execute_function"
     /\ tool.input.function_name \in DOMAIN RegisteredFunctions) =>
        LET args == tool.input.args
            parameters == RegisteredFunctions[tool.input.function_name]
            declared == { parameters[i] : i \in 1..Len(parameters) }
        IN  /\ Len(tool.st.calls) = 1
            /\ tool.st.calls[1].function = tool.input.function_name
            /\ DOMAIN tool.st.calls[1].kwargs = declared \cap DOMAIN args
            /\ \A k \in declared \cap DOMAIN args :
                  tool.st.calls[1].kwargs[k] =
                      IF \A i \in 1..Len(args[k]) : args[k][i] \in AsciiDigits
                      THEN PyInt(IntOf(args[k])) ELSE PyStr(args[k])

\* The key an item is stored under
KeyOf(it) == IF it.key = None THEN <<"value">> ELSE it.key[1]

\* The directive has no line break inside its brackets
OneLine(d) == \A i \in 1..Len(d.items) : d.items[i].pad # <<"\n">>

\* C9 as stated: on text containing FUNCTION_CALL[name](k1:v1, ..., kn:vn)
\* parse_function_call returns detected = True, function = the stripped name
\* and args mapping every stripped key ki to the stripped value vi (an item
\* without ':' under the key "value"; no item, empty args); on text without a
\* directive it returns detected = False and nothing else.
C9_EveryItemMapped ==
    parse_call.op = "returned" =>
        LET r == parse_call.result[1]
        IN  IF parse_call.directive = None THEN r = [detected |-> FALSE]
            ELSE LET d == parse_call.directive[1]
                 IN  /\ r.detected
                     /\ r.function = <<"f">>
                     /\ DOMAIN r.args = { KeyOf(d.items[i]) : i \in 1..Len(d.items) }
                     /\ \A i \in 1..Len(d.items) :
                           r.args[KeyOf(d.items[i])] = d.items[i].value

\* C9 amended: the above holds for a directive written on one line, with args
\* mapping every stripped key to the stripped value of the last item stored
\* under that key (the items without ':' share the key "value" with an item
\* written value:v); a directive with a line break inside its brackets is not
\* the one returned.
C9_LastItemWins ==
    parse_call.op = "returned" =>
        LET r == parse_call.result[1]
        IN  IF parse_call.directive = None THEN r = [detected |-> FALSE]
            ELSE LET d == parse_call.directive[1]
                 IN  IF OneLine(d)
                     THEN /\ r.detected
                          /\ r.function = <<"f">>
                          /\ DOMAIN r.args = { KeyOf(d.items[i]) : i \in 1..Len(d.items) }
                          /\ \A i \in 1..Len(d.items) :
                                (\A j \in (i + 1)..Len(d.items) :
                                    KeyOf(d.items[j]) # KeyOf(d.items[i]))
                                => r.args[KeyOf(d.items[i])] = d.items[i].value
                     ELSE r.detected => r.function = <<"g">>

\* Two padded items under one key with different values were parsed, the
\* second value holding a ':'
C9_Witness ==
    /\ parse_call.op = "returned"
    /\ parse_call.directive # None
    /\ LET d == parse_call.directive[1]
       IN  /\ Len(d.items) = 2
           /\ d.items[1] = [key |-> Some(<<"q">>), value |-> <<"a">>, pad |-> <<" ">>]
           /\ d.items[2] = [key |-> Some(<<"q">>), value |-> <<"b", ":", "c">>, pad |-> <<" ">>]
           /\ parse_call.result[1].args[<<"q">>] = <<"b", ":", "c">>

----------------------------------------------------------------------------
(* Properties of the dispatcher and of the tools *)

\* C11: execute_function with a name that is not registered returns an
\* error-shaped result and does not raise, whatever the parsed arguments; no
\* registered function is invoked, and the registry and the loaded store stay
\* as they were.
C11_UnknownName ==
    (tool.op = "execute_function"
     /\ tool.input.function_name \notin DOMAIN RegisteredFunctions) =>
        /\ tool.raised = ""
        /\ tool.value = PyDict(<< <<"error",
                PyStr(<<"Function ">> \o tool.input.function_name \o <<" not found">>)>> >>)
        /\ tool.st.calls = <<>>
        /\ tool.st.gen_calls = <<>>
        /\ tool.st.opened = <<>>
        /\ tool.registered_functions = RegisteredFunctions
        /\ tool.store = ToolStore

\* An unregistered name was dispatched with two arguments, one under the
\* fallback key
C11_Witness ==
    /\ tool.op = "execute_function"
    /\ tool.input.function_name = <<"terbang">>
    /\ DOMAIN tool.input.args = { <<"query">>, <<"value">> }
    /\ tool.value.type = "dict"
    /\ tool.value.v[1][1] = "error"
    /\ Len(tool.st.dispatches) = 1

\* The dispatch of this name with these arguments ends in an error: the name
\* is unknown, a conversion raises, or the invoked function raises
DispatchError(function_name, args) ==
    \/ function_name \notin DOMAIN RegisteredFunctions
    \/ /\ function_name \in DOMAIN RegisteredFunctions
       /\ Bind(ProcessArgs(RegisteredFunctions[function_name], args), LAMBDA p :
             \/ p.raised # ""
             \/ CallFunction(tool.answers, tool.store, ToolEffects0, function_name,
                             p.processed_args).raised # "")

\* A payload of the shape {status: "error", message: <text>}
StatusErrorShape(value) ==
    /\ value.type = "dict"
    /\ Len(value.v) = 2
    /\ value.v[1] = <<"status", PyStr(<<"error">>)>>
    /\ value.v[2][1] = "message"
    /\ value.v[2][2].type = "str"

\* C12: every dispatch error in execute_function (unknown name, missing or
\* ill-typed argument, failure inside the invoked function) is returned, not
\* raised, as a payload of the shape {status: "error", message: <text>}, and
\* that payload is serialized into the prompt of the second generation call.
C12_StatusErrorPayload ==
    /\ (tool.op = "execute_function"
        /\ DispatchError(tool.input.function_name, tool.input.args)) =>
           /\ tool.raised = ""
           /\ StatusErrorShape(tool.value)
    /\ (tool.op = "generate_response" /\ tool.input.first # None) =>
         Bind(ParseFunctionCall(tool.input.first[1]), LAMBDA function_result :
            (function_result.detected
             /\ DispatchError(function_result.function, function_result.args)) =>
                /\ Len(FollowUpCalls) = 1
                /\ StatusErrorShape(DispatchOf(function_result).value)
                /\ Contains(FollowUpCalls[1].prompt,
                            JsonDumps(DispatchOf(function_result).value)))

\* C13: each of the five tools, for every input and every failure of the
\* service it uses, returns a structured object and does not raise to its
\* caller.
C13_ToolsReturn ==
    tool.op = "call_tool" =>
        /\ tool.raised = ""
        /\ tool.value.type \in { "dict", "list" }

\* The first generation call, the dispatch or the follow-up call of this
\* generate_response call failed
ResponseFailed ==
    \/ tool.input.first = None
    \/ /\ ParseFunctionCall(tool.input.first[1]).detected
       /\ \/ DispatchOf(ParseFunctionCall(tool.input.first[1])).raised # ""
          \/ tool.input.follow_up = None

\* C14: every error path of the query pipeline yields user-visible text whose
\* first line is a Markdown heading: the text starts with '#'.  Here for the
\* terminal variant's generate_response.
C14_ErrorTextIsHeading ==
    (tool.op = "generate_response" /\ ResponseFailed) =>
        /\ tool.raised = ""
        /\ tool.value # <<>>
        /\ Head(tool.value) = "#"

----------------------------------------------------------------------------
(* Properties of the GUI pipeline *)

\* The environment of a call with the status callback taken away
WithoutStatusCallback(env) == [env EXCEPT !.status_callback = "absent"]

\* This step is a SimpleRAG.process_query call that ends as the same call
\* does, from the same panel and file and with the same service answers, when
\* no status callback is attached
SameWithoutCallback ==
    LET env == GuiEnv(gui.config, gui'.answers[1])
    IN  \E found \in GuiFound(env) :
           LET with == rag_process_query(env, found, CallStart(gui.st), gui'.query)
               without == rag_process_query(WithoutStatusCallback(env), found,
                                            CallStart(gui.st), gui'.query)
           IN  /\ with.raised = gui'.raised
               /\ with.value = gui'.value
               /\ with.st = gui'.st
               /\ without.raised = with.raised
               /\ without.value = with.value
               /\ without.st.panel = with.st.panel
               /\ without.st.file = with.st.file
               /\ without.st.gen_calls = with.st.gen_calls

\* C15: SimpleRAG.process_query returns the same string and leaves the same
\* state whether a status callback is attached or not, whatever the embedding,
\* search and generation services answer: the callback only observes.
C15_CallbackOnlyObserves ==
    [][gui'.op = "rag.process_query" =>
          /\ gui'.config = gui.config
          /\ SameWithoutCallback]_vars

----------------------------------------------------------------------------
(* Properties of the indexing tool *)

\* The files of the directory that one of the three patterns matches
Matching(dir) == { i \in 1..Len(dir) : dir[i].ext \in { "pdf", "txt", "md" } }

\* C16: load_documents returns exactly one Document per file of the data
\* directory matching *.pdf, *.txt or *.md and none for another file; a file
\* whose extraction fails still yields its Document, with id = basename, type
\* from the extension and the "Error processing document: <reason>" text, and
\* the remaining files are processed.
C16_OneDocumentPerFile ==
    proc_op.op = "load_documents" =>
        /\ Len(documents) = Cardinality(Matching(data_dir))
        /\ \A i \in Matching(data_dir) :
              \E j \in 1..Len(documents) :
                 /\ documents[j].id = <<data_dir[i].name, ".", data_dir[i].ext>>
                 /\ documents[j].type = data_dir[i].ext
                 /\ documents[j].text = IF data_dir[i].readable THEN data_dir[i].content
                                        ELSE <<"Error processing document: ", "reason">>
                 /\ \A k \in 1..Len(documents) : documents[k].id = documents[j].id => k = j
        /\ \A j \in 1..Len(documents) :
              \E i \in Matching(data_dir) :
                 documents[j].id = <<data_dir[i].name, ".", data_dir[i].ext>>

\* A directory with an unreadable file, a file no pattern matches and a
\* readable file was loaded: the unreadable one first, then the readable one
C16_Witness ==
    /\ proc_op.op = "load_documents"
    /\ Len(data_dir) = 3
    /\ Len(documents) = 2
    /\ documents[1].id = <<"a", ".", "txt">>
    /\ documents[1].type = "txt"
    /\ documents[1].text = <<"Error processing document: ", "reason">>
    /\ documents[2].id = <<"a", ".", "md">>
    /\ documents[2].text = <<"b">>

----------------------------------------------------------------------------
(* Program startup: the terminal application (LLM/main.py) and the GUI
   application (app/src/main.py) *)

\* How many queries one run of a program takes from its user
MaxQueries == 2

\* The store a completed build left on disk
StoredIndex == Some(WriteIndex(ToolStore.index))
StoredPkl == Some(WritePkl(ToolStore.documents, ToolStore.chunks_info))

\* The programs and the environment they are started in: whether GOOGLE_API_KEY
\* is set, and (GUI) whether the imports of the RAG dependencies succeeded
Programs ==
    { p \in [op : { "init" }, kind : { "terminal", "gui" }, environ_key : BOOLEAN,
             rag_available : BOOLEAN, phase : { "not started" },
             exit_status : { None }, raised : { "" }, loads : { 0 },
             rag : { FALSE }, accepted : { <<>> }, answered : { 0 },
             status : { <<>> }, last_input : { None }] :
      p.kind = "terminal" => p.rag_available }

\* What the user types at the terminal prompt, and what the GUI fields hold when
\* the user submits
CliInputs == { <<"exit">>, <<"quit">>, <<"EXIT">>, <<" ">>, <<"a">> }
GuiInputs == { <<>>, <<"a">>, <<"b">> }

\* python main.py, from the import of the module to the first prompt of run_cli:
\* the module exits with status 1 when GOOGLE_API_KEY is unset; the constructor
\* loads the store; __main__ catches what the constructor raises, prints it, and
\* the process ends
terminal_start ==
    /\ program.op = "init"
    /\ program.kind = "terminal"
    /\ IF ~program.environ_key
       THEN /\ program' = [program EXCEPT !.op = "terminal.start", !.phase = "exited",
                                          !.exit_status = Some(1)]
            /\ UNCHANGED ragVars
       ELSE /\ ConstructorLoad
            /\ LET raised == LoadVectorStore(index_file, pkl_file).raised
               IN  program' = [program EXCEPT
                       !.op = "terminal.start", !.loads = 1, !.raised = raised,
                       !.rag = (raised = ""),
                       !.phase = IF raised = "" THEN "accepting" ELSE "exited",
                       !.exit_status = IF raised = "" THEN None ELSE Some(0)]
    /\ UNCHANGED buildVars
    /\ UNCHANGED <<chunk_call, parse_call, tool, gui>>

\* query.lower() on the inputs of the terminal
Lower(query) == IF query = <<"EXIT">> THEN <<"exit">> ELSE query

\* One pass of the loop of run_cli: 'exit' or 'quit' ends the program, a blank line is
\* skipped, a query is searched and answered; an exception of search_documents
\* leaves run_cli and is caught and printed by __main__, which ends the program
terminal_query ==
    /\ program.kind = "terminal"
    /\ program.phase = "accepting"
    /\ Len(program.accepted) < MaxQueries
    /\ \E query \in CliInputs, search \in { "ok", "raises" } :
          LET taken == [program EXCEPT !.op = "terminal.query",
                                       !.last_input = Some(query)]
          IN  program' =
                 IF Lower(query) \in { <<"exit">>, <<"quit">> }
                 THEN [taken EXCEPT !.phase = "exited", !.exit_status = Some(0)]
                 ELSE IF query = <<" ">>
                 THEN taken
                 ELSE IF search = "raises"
                 THEN [taken EXCEPT !.accepted = Append(@, query),
                                    !.phase = "exited", !.exit_status = Some(0)]
                 ELSE [taken EXCEPT !.accepted = Append(@, query),
                                    !.answered = @ + 1]
    /\ UNCHANGED storeVars
    /\ UNCHANGED <<chunk_call, parse_call, tool, gui>>

\* What SimpleRAG(...) of the GUI raises ("" when it returns): the constructor
\* looks at the dependencies, then at the credential, then loads the store
GuiConstructorRaises(rag_available, environ_key, idxf, pklf) ==
    IF ~rag_available THEN "ImportError"
    ELSE IF ~environ_key THEN "ValueError"
    ELSE LoadVectorStore(idxf, pklf).raised

\* MarkdownApp.initialize: the components and both query panels are built, then
\* _init_rag tries the constructor inside try/except and writes the outcome in
\* the status texts; the layout is set up and the components are started in
\* every case
gui_initialize ==
    /\ program.op = "init"
    /\ program.kind = "gui"
    /\ IF ~program.rag_available
       THEN /\ program' = [program EXCEPT
                   !.op = "gui.initialize", !.phase = "accepting",
                   !.status = <<"Dependensi RAG tidak tersedia">>]
            /\ UNCHANGED ragVars
       ELSE LET raised == GuiConstructorRaises(program.rag_available,
                                               program.environ_key,
                                               index_file, pkl_file)
            IN  /\ IF program.environ_key
                   THEN ConstructorLoad
                   ELSE /\ rag_state' = "failed"
                        /\ UNCHANGED <<index, rag_documents, rag_chunks_info,
                                       load_saw, rag_snap, last_search>>
                /\ program' = [program EXCEPT
                       !.op = "gui.initialize", !.phase = "accepting",
                       !.raised = raised, !.rag = (raised = ""),
                       !.loads = IF program.environ_key THEN 1 ELSE 0,
                       !.status = IF raised = "" THEN <<"RAG siap digunakan">>
                                  ELSE <<"Error: ", raised>>]
    /\ UNCHANGED buildVars
    /\ UNCHANGED <<chunk_call, parse_call, tool, gui>>

\* on_rag_query(query) of _init_rag: with a SimpleRAG the query is processed and
\* the response shown, without one nothing happens
OnRagQuery(p, query) ==
    [p EXCEPT !.accepted = Append(@, query),
              !.answered = IF p.rag THEN @ + 1 ELSE @]

\* RAGQueryPanel._on_submit_query: an empty field is ignored; otherwise the
\* status shows the query, on_query is called and the field is cleared
gui_submit_query ==
    /\ program.kind = "gui"
    /\ program.phase = "accepting"
    /\ Len(program.accepted) < MaxQueries
    /\ \E query \in GuiInputs :
          program' =
             IF query = <<>> THEN [program EXCEPT !.op = "gui.submit_query"]
             ELSE [OnRagQuery(program, query) EXCEPT
                       !.op = "gui.submit_query",
                       !.status = <<"Memproses: ">> \o query]
    /\ UNCHANGED storeVars
    /\ UNCHANGED <<chunk_call, parse_call, tool, gui>>

\* LLMCommandPanel._process_llm_query: the same handler behind the command field;
\* the status ends as "Query berhasil diproses" whatever the handler did
gui_llm_query ==
    /\ program.kind = "gui"
    /\ program.phase = "accepting"
    /\ Len(program.accepted) < MaxQueries
    /\ \E query \in GuiInputs :
          program' =
             IF query = <<>> THEN [program EXCEPT !.op = "gui.llm_query"]
             ELSE [OnRagQuery(program, query) EXCEPT
                       !.op = "gui.llm_query",
                       !.status = <<"Query berhasil diproses">>]
    /\ UNCHANGED storeVars
    /\ UNCHANGED <<chunk_call, parse_call, tool, gui>>

InitStart ==
    /\ data_dir = <<>>
    /\ documents = <<>>
    /\ embeddings = <<>>
    /\ chunks_info = <<>>
    /\ embed_log = <<>>
    /\ index_file \in { None, StoredIndex }
    /\ pkl_file \in { None, StoredPkl }
    /\ disk_intact = (index_file # None /\ pkl_file # None)
    /\ pre_save = IF index_file # None /\ pkl_file # None
                  THEN Some([index |-> ToolStore.index,
                             documents |-> ToolStore.documents,
                             chunks_info |-> ToolStore.chunks_info])
                  ELSE None
    /\ proc_op = [op |-> "init", result |-> "ok"]
    /\ rag_state = "none"
    /\ index = None
    /\ rag_documents = None
    /\ rag_chunks_info = None
    /\ load_saw = None
    /\ rag_snap = None
    /\ last_search = None
    /\ chunk_call = NoCall
    /\ parse_call = NoCall
    /\ tool = NoCall
    /\ gui = NoCall
    /\ program \in Programs

NextStart ==
    \/ terminal_start
    \/ terminal_query
    \/ gui_initialize
    \/ gui_submit_query
    \/ gui_llm_query

SpecStart == InitStart /\ [][NextStart]_vars

\* The program was started without the credential or without one of the two
\* files of the store
StartedWithoutStore ==
    /\ program.op \notin { "none", "init" }
    /\ \/ ~program.environ_key
       \/ index_file = None
       \/ pkl_file = None

\* C17: when the credential variable is unset or a file of the store is missing,
\* startup is aborted in the terminal and in the GUI application alike: the
\* program never accepts a user query, and the load is not retried.
C17_StartupAborted ==
    StartedWithoutStore =>
        /\ program.phase = "exited"
        /\ program.accepted = <<>>
        /\ program.loads <= 1

----------------------------------------------------------------------------
(* The indexing tool's command line: main() of train.py with its arguments *)

\* An API key as the tool sees it: absent or empty (<<>>), or a key
ApiKeys == { <<>>, <<"key">> }

\* args of argparse: --api-key, and --chunk-size with its default
TrainArgs ==
    [api_key : ApiKeys, chunk_size : (1..MaxChunkSize) \cup { DefaultChunkSize }]

\* What input("Enter your Google AI API key: ") does: it returns the line typed,
\* or raises EOFError when standard input is closed
TypedKeys ==
    { [raised |-> "EOFError", line |-> <<>>] } \cup
    { [raised |-> "", line |-> k] : k \in ApiKeys }

\* api_key = args.api_key or os.environ.get("GOOGLE_API_KEY");
\* if not api_key: api_key = input(...)
ResolveApiKey(args, environ_key, typed) ==
    IF args.api_key # <<>> THEN [raised |-> "", api_key |-> args.api_key]
    ELSE IF environ_key # <<>> THEN [raised |-> "", api_key |-> environ_key]
    ELSE [raised |-> typed.raised, api_key |-> typed.line]

\* The steps main() runs after genai.configure
TrainSteps == <<"load_documents", "create_embeddings", "save_to_vector_store">>

\* One run of python train.py, from the parsing of the arguments to the exit of
\* the process.  An exception that leaves main() ends the process with status 1.
\* genai.configure accepts any key, the empty one included; whether embed_content
\* then works is the service's answer.
train_main_cli ==
    /\ program.op = "init"
    /\ \E args \in TrainArgs, environ_key \in ApiKeys, typed \in TypedKeys :
          LET k == ResolveApiKey(args, environ_key, typed)
              run == [op |-> "train.main", args |-> args, environ_key |-> environ_key,
                      api_key |-> k.api_key, steps |-> <<>>, raised |-> k.raised,
                      exit_status |-> 1, documents |-> <<>>, chunks_info |-> <<>>]
          IN  IF k.raised # ""
              THEN /\ program' = run
                   /\ UNCHANGED <<index_file, pkl_file, pre_save, disk_intact>>
              ELSE \E r \in TrainOutcomes(data_dir) :
                     IF r.raised # ""
                     THEN /\ program' = [run EXCEPT !.steps = TrainSteps,
                                                    !.raised = r.raised,
                                                    !.documents = r.documents]
                          /\ UNCHANGED <<index_file, pkl_file, pre_save, disk_intact>>
                     ELSE \E io \in SaveIO :
                            /\ WriteStore(r.documents, r.embeddings, r.chunks_info, io)
                            /\ program' =
                                  [run EXCEPT !.steps = TrainSteps,
                                              !.raised = IF io = "ok" THEN "" ELSE "OSError",
                                              !.exit_status = IF io = "ok" THEN 0 ELSE 1,
                                              !.documents = r.documents,
                                              !.chunks_info = r.chunks_info]
    /\ UNCHANGED <<data_dir, documents, embeddings, chunks_info, embed_log, proc_op>>
    /\ UNCHANGED ragVars
    /\ UNCHANGED <<chunk_call, parse_call, tool, gui>>

InitTrain ==
    /\ InitWith(SmallDirs)
    /\ chunk_call = NoCall
    /\ parse_call = NoCall
    /\ tool = NoCall
    /\ gui = NoCall
    /\ program = [op |-> "init"]

NextTrain == train_main_cli

SpecTrain == InitTrain /\ [][NextTrain]_vars

\* C18: when no API key is resolvable from the flag, the environment or the
\* prompt, the indexing tool exits with a non-zero status before any document
\* is loaded or embedded.
C18_ExitsWithoutKey ==
    (program.op = "train.main" /\ program.api_key = <<>>) =>
        /\ program.exit_status # 0
        /\ program.steps = <<>>

\* ceil(n / d)
CeilDiv(n, d) == (n + d - 1) \div d

\* C19: with --chunk-size C every indexed chunk text has length at most C, and a
\* document of length L contributes ceil(L / C) chunks.
C19_ChunkSizeFlagUsed ==
    (program.op = "train.main" /\ program.exit_status = 0) =>
        /\ \A i \in 1..Len(pkl_file[1].chunks_info) :
              Len(pkl_file[1].chunks_info[i].text) <= program.args.chunk_size
        /\ \A j \in 1..Len(pkl_file[1].documents) :
              pkl_file[1].documents[j].chunks_count =
                 Some(CeilDiv(Len(pkl_file[1].documents[j].text),
                              program.args.chunk_size))

----------------------------------------------------------------------------
(* Query time: a loaded store and the operations that read it *)

\* The objects of one program at query time and the store they loaded: the
\* tool-calling assistant, the GUI pipeline, a call of the parser, or the
\* retriever alone
QuerySessions ==
    { [tool |-> t, gui |-> NoCall, parse_call |-> NoCall, store |-> t.store] :
      t \in ToolInits }
    \cup { [tool |-> NoCall, gui |-> g, parse_call |-> NoCall,
            store |-> [index |-> g.config.store.index,
                       chunks_info |-> g.config.store.chunks_info,
                       documents |-> <<>>]] :
           g \in GuiInits }
    \cup { [tool |-> NoCall, gui |-> NoCall, parse_call |-> c, store |-> ToolStore] :
           c \in ParseCalls }
    \cup { [tool |-> NoCall, gui |-> NoCall, parse_call |-> NoCall,
            store |-> ToolStore] }

\* The state right after load_vector_store has read the pair a completed save
\* of (store) left on disk
LoadedStore(store) ==
    /\ data_dir = <<>>
    /\ documents = <<>>
    /\ embeddings = <<>>
    /\ chunks_info = <<>>
    /\ embed_log = <<>>
    /\ index_file = Some(WriteIndex(store.index))
    /\ pkl_file = Some(WritePkl(store.documents, store.chunks_info))
    /\ pre_save = Some([index |-> store.index, documents |-> store.documents,
                        chunks_info |-> store.chunks_info])
    /\ disk_intact = TRUE
    /\ proc_op = [op |-> "init", result |-> "ok"]
    /\ rag_state = "ready"
    /\ LET r == LoadVectorStore(index_file, pkl_file)
       IN  /\ index = r.index
           /\ rag_documents = r.documents
           /\ rag_chunks_info = r.chunks_info
    /\ load_saw = Some([index |-> TRUE, pkl |-> TRUE, raised |-> ""])
    /\ rag_snap = pre_save
    /\ last_search = None

InitQuery ==
    /\ \E s \in QuerySessions :
          /\ tool = s.tool
          /\ gui = s.gui
          /\ parse_call = s.parse_call
          /\ LoadedStore(s.store)
    /\ chunk_call = NoCall
    /\ program = NoCall

\* The retriever alone
RetrieverSearch ==
    /\ tool = NoCall
    /\ gui = NoCall
    /\ parse_call = NoCall
    /\ search_documents

\* process_query of the GUI objects, where the program built them
GuiProcessQuery ==
    /\ gui # NoCall
    /\ \/ RagProcessQuery
       \/ ChatProcessQuery
       \/ AppProcessQuery

NextQuery ==
    \/ RetrieverSearch
    \/ execute_function
    \/ generate_response
    \/ CallTool
    \/ parse_function_call
    \/ GuiProcessQuery

SpecQuery == InitQuery /\ [][NextQuery]_vars

\* C20: the loaded store is read-only at query time: whatever calls of
\* search_documents, generate_response, parse_function_call, execute_function
\* and process_query were made, the in-memory index, documents and chunks_info
\* and the two files on disk are what they were right after load_vector_store.
C20_StoreReadOnly ==
    LET loaded == rag_snap[1]
    IN  /\ index = Some(loaded.index)
        /\ rag_documents = Some(loaded.documents)
        /\ rag_chunks_info = Some(loaded.chunks_info)
        /\ index_file = Some(WriteIndex(loaded.index))
        /\ pkl_file = Some(WritePkl(loaded.documents, loaded.chunks_info))
        /\ tool # NoCall =>
              tool.store = [index |-> loaded.index, chunks_info |-> loaded.chunks_info,
                            documents |-> loaded.documents]
        /\ gui # NoCall =>
              gui.config.store = [index |-> loaded.index,
                                  chunks_info |-> loaded.chunks_info]

\* generate_response dispatched a tool that read the store, after which the
\* store is what was loaded
C20_Witness ==
    /\ tool # NoCall
    /\ tool.op = "generate_response"
    /\ \E i \in 1..Len(tool.st.calls) :
          tool.st.calls[i].function \in { <<"search_documents">>, <<"summarize_document">>,
                                         <<"list_available_documents">> }
    /\ tool.store = ToolStore
    /\ index = Some(ToolStore.index)
    /\ pkl_file = StoredPkl

----------------------------------------------------------------------------
(* Properties of the terminal shell *)

\* C21: in run_cli a failure while a query is processed is turned into a
\* returned error value, so the read loop is ended only by the inputs exit and
\* quit, and goes on accepting queries after a failed one.
C21_OnlySentinelEndsLoop ==
    (/\ program.op = "terminal.query"
     /\ program.phase = "exited") =>
        Lower(program.last_input[1]) \in { <<"exit">>, <<"quit">> }

----------------------------------------------------------------------------
(* The Markdown viewer of the kiosk: the file, the displayed value, the
   watcher thread and the chat pipeline's update_content *)

\* How many external edits of the file and how many update_content calls one
\* run sees
MaxEdits == 2
MaxUpdates == 2

\* The contents the Markdown file and the view may hold
Contents == { <<"c0">>, <<"c1">>, <<"c2">> }

\* FileManager.write_markdown_file: open(file_path, "w") and write
WriteMarkdownFileAppending(file, content) == file \o content

WriteMarkdownFile(file, content) == content

\* What a control's page attribute gives before the control is added to a
\* page: None, or (later versions of the toolkit) an exception
PageBeforeAdd == { "None", "raises" }

\* self.page = markdown_component.page in MarkdownFileHandler.__init__: read
\* once, when the handler is built, on a component that is attached to a page
\* or not; TRUE when what it read is a page
HandlerPage(attached, page_before_add) == attached

\* The kiosk before MarkdownApp.initialize
Viewers ==
    [op : { "init" }, kind : { "viewer" }, file : Contents, value : { <<>> },
     rendered : { <<>> }, attached : { FALSE }, handler_page : { FALSE },
     page_before_add : PageBeforeAdd, monitoring : { FALSE }, events : { 0 },
     watcher : { [pc |-> "idle", new_content |-> <<>>] },
     pipeline : { [pc |-> "idle", content |-> <<>>] },
     last_content : { None }, last_writer : { "none" }, write_failed : { FALSE },
     edits : { 0 }, updates : { 0 }]

\* MarkdownApp.initialize: _init_components builds the MarkdownViewer, which
\* reads the file, builds the Markdown control and, still in its constructor,
\* the MarkdownFileHandler; _setup_layout adds the view to the page afterwards
\* and _start_components starts the observer
viewer_initialize ==
    /\ program.op = "init"
    /\ program.kind = "viewer"
    /\ program' =
          IF program.page_before_add = "raises"
          THEN [program EXCEPT !.op = "initialize failed"]
          ELSE [program EXCEPT
                   !.op = "initialize",
                   !.value = program.file,
                   !.rendered = program.file,
                   !.handler_page = HandlerPage(program.attached,
                                                program.page_before_add),
                   !.attached = TRUE,
                   !.monitoring = TRUE]
    /\ UNCHANGED storeVars
    /\ UNCHANGED <<chunk_call, parse_call, tool, gui>>

\* Somebody outside the program rewrites the Markdown file; the observer queues
\* a file-modified event
external_edit ==
    /\ program.kind = "viewer"
    /\ program.monitoring
    /\ program.edits < MaxEdits
    /\ \E c \in Contents :
          /\ c # program.file
          /\ program' = [program EXCEPT !.op = "external_edit", !.file = c,
                                        !.events = @ + 1, !.edits = @ + 1,
                                        !.last_writer = "external"]
    /\ UNCHANGED storeVars
    /\ UNCHANGED <<chunk_call, parse_call, tool, gui>>

\* on_modified, first half: the watcher thread takes an event and reads the file
on_modified_read ==
    /\ program.kind = "viewer"
    /\ program.monitoring
    /\ program.events > 0
    /\ program.watcher.pc = "idle"
    /\ program' = [program EXCEPT
                      !.op = "on_modified", !.events = @ - 1,
                      !.watcher = [pc |-> "read", new_content |-> program.file]]
    /\ UNCHANGED storeVars
    /\ UNCHANGED <<chunk_call, parse_call, tool, gui>>

\* on_modified, second half: with a component and a page the value is set and
\* the page updated; otherwise a warning is printed
on_modified_update ==
    /\ program.kind = "viewer"
    /\ program.watcher.pc = "read"
    /\ program' =
          IF program.handler_page
          THEN [program EXCEPT !.op = "on_modified",
                               !.value = program.watcher.new_content,
                               !.rendered = program.watcher.new_content,
                               !.watcher = [pc |-> "idle", new_content |-> <<>>]]
          ELSE [program EXCEPT !.op = "on_modified",
                               !.watcher = [pc |-> "idle", new_content |-> <<>>]]
    /\ UNCHANGED storeVars
    /\ UNCHANGED <<chunk_call, parse_call, tool, gui>>

\* update_content(content), first statement: self.markdown_view.value = content
update_content_set ==
    /\ program.kind = "viewer"
    /\ program.monitoring
    /\ program.pipeline.pc = "idle"
    /\ program.updates < MaxUpdates
    /\ \E content \in Contents :
          program' = [program EXCEPT !.op = "update_content", !.value = content,
                                     !.updates = @ + 1,
                                     !.pipeline = [pc |-> "set", content |-> content]]
    /\ UNCHANGED storeVars
    /\ UNCHANGED <<chunk_call, parse_call, tool, gui>>

\* update_content, second statement: write_markdown_file, which returns False
\* when the write fails; a write is a modification the observer reports
update_content_write ==
    /\ program.kind = "viewer"
    /\ program.pipeline.pc = "set"
    /\ \E ok \in BOOLEAN :
          program' =
             IF ok
             THEN [program EXCEPT
                      !.op = "update_content",
                      !.file = WriteMarkdownFile(program.file, program.pipeline.content),
                      !.events = @ + 1,
                      !.last_writer = "update_content",
                      !.pipeline.pc = "written"]
             ELSE [program EXCEPT !.op = "update_content", !.write_failed = TRUE,
                                  !.pipeline.pc = "written"]
    /\ UNCHANGED storeVars
    /\ UNCHANGED <<chunk_call, parse_call, tool, gui>>

\* update_content, last statement: self.page.update(); the call returns
update_content_return ==
    /\ program.kind = "viewer"
    /\ program.pipeline.pc = "written"
    /\ program' = [program EXCEPT
                      !.op = "update_content", !.rendered = program.value,
                      !.last_content = Some(program.pipeline.content),
                      !.pipeline = [pc |-> "idle", content |-> <<>>]]
    /\ UNCHANGED storeVars
    /\ UNCHANGED <<chunk_call, parse_call, tool, gui>>

InitViewer ==
    /\ InitWith({ <<>> })
    /\ chunk_call = NoCall
    /\ parse_call = NoCall
    /\ tool = NoCall
    /\ gui = NoCall
    /\ program \in Viewers

NextViewer ==
    \/ viewer_initialize
    \/ external_edit
    \/ on_modified_read
    \/ on_modified_update
    \/ update_content_set
    \/ update_content_write
    \/ update_content_return

\* The watcher thread and the pipeline's thread are scheduled: a handler or a
\* call that can take its next step takes it
SpecViewer ==
    /\ InitViewer
    /\ [][NextViewer]_vars
    /\ WF_vars(on_modified_read)
    /\ WF_vars(on_modified_update)
    /\ WF_vars(update_content_write)
    /\ WF_vars(update_content_return)

\* C22: while monitoring is started, after an external modification of the
\* Markdown file the watcher's on_modified handler eventually sets the displayed
\* value to the file's new content.
C22_ViewFollowsFile ==
    (/\ program.op = "external_edit"
     /\ program.monitoring)
        ~> (program.value = program.file)

\* Every update_content call has returned and every file-modified event has
\* been handled
ViewerQuiet ==
    /\ program.kind = "viewer"
    /\ program.monitoring
    /\ program.pipeline.pc = "idle"
    /\ program.watcher.pc = "idle"
    /\ program.events = 0

----------------------------------------------------------------------------
(* The live-voice demo: LiveConversation.run, its five tasks and the queues
   (live_api.py, voice.py).  The tasks are coroutines of one event loop: what
   a task does between two awaits is one step. *)

\* How many texts the user types, how many audio chunks the session delivers
\* and how many chunks the microphone records in one run
MaxTexts == 2
MaxChunks == 3
MaxRecorded == 1

\* The lines typed at the "pesan > " prompt
LiveTexts == { <<"q">>, <<"Q">>, <<"hi">> }

\* text.lower() on those lines
LowerText(text) == IF text = <<"Q">> THEN <<"q">> ELSE text

\* The tasks of the TaskGroup
LiveTasks == { "send_text", "record_audio", "receive_response", "play_audio",
               "send_audio" }

\* The demo before run(): no task, empty queues
LiveInit ==
    [op |-> "init", kind |-> "live", phase |-> "init",
     tasks |-> [t \in LiveTasks |-> "none"],
     sent |-> <<>>, typed |-> <<>>,
     audio_in_queue |-> <<>>, arrived |-> 0, playing |-> None, played |-> <<>>,
     purged |-> <<>>,
     audio_out_queue |-> 0, recorded |-> 0,
     cleanup_calls |-> 0, exit_path |-> "", result |-> ""]

\* A send_text that sends the line before it looks at it
SendTextSendingFirst(p, text, send_ok) ==
    IF ~send_ok
    THEN [p EXCEPT !.typed = Append(@, text), !.tasks["send_text"] = "failed"]
    ELSE IF LowerText(text) = <<"q">>
    THEN [p EXCEPT !.typed = Append(@, text), !.sent = Append(@, text),
                   !.tasks["send_text"] = "done"]
    ELSE [p EXCEPT !.typed = Append(@, text), !.sent = Append(@, text)]

\* One pass of the loop of send_text on the line (text): q ends the task,
\* another line is sent to the session, and a failing send ends the task with
\* its exception
SendText(p, text, send_ok) ==
    IF LowerText(text) = <<"q">>
    THEN [p EXCEPT !.typed = Append(@, text), !.tasks["send_text"] = "done"]
    ELSE IF ~send_ok
    THEN [p EXCEPT !.typed = Append(@, text), !.tasks["send_text"] = "failed"]
    ELSE [p EXCEPT !.typed = Append(@, text), !.sent = Append(@, text)]

\* A get that leaves the item at the head of the queue
DequeueLeavingHead(queue) == [item |-> Head(queue), queue |-> queue]

\* queue.get() on a non-empty asyncio.Queue
Dequeue(queue) == [item |-> Head(queue), queue |-> Tail(queue)]

\* finally: self.audio_processor.cleanup()
Cleanup(p) == [p EXCEPT !.cleanup_calls = @ + 1]

\* run() up to the creation of the tasks: the session is opened, the task group
\* entered, the queues made, the two audio streams opened.  A failure on the
\* way leaves both context managers and run() through the finally clause.
run_start ==
    /\ program.kind = "live"
    /\ program.phase = "init"
    /\ \E outcome \in { "ok", "connect", "audio stream" } :
          program' =
             IF outcome = "ok"
             THEN [program EXCEPT !.op = "run", !.phase = "running",
                                  !.tasks = [t \in LiveTasks |-> "running"]]
             ELSE [Cleanup(program) EXCEPT !.op = "run", !.phase = "ended",
                                           !.exit_path = outcome,
                                           !.result = "raised"]
    /\ UNCHANGED storeVars
    /\ UNCHANGED <<chunk_call, parse_call, tool, gui>>

send_text ==
    /\ program.kind = "live"
    /\ program.phase = "running"
    /\ program.tasks["send_text"] = "running"
    /\ Len(program.typed) < MaxTexts
    /\ \E text \in LiveTexts, send_ok \in BOOLEAN :
          program' = [SendText(program, text, send_ok) EXCEPT !.op = "send_text"]
    /\ UNCHANGED storeVars
    /\ UNCHANGED <<chunk_call, parse_call, tool, gui>>

\* record_audio: a chunk read from the microphone is put on audio_out_queue
record_audio ==
    /\ program.kind = "live"
    /\ program.phase = "running"
    /\ program.tasks["record_audio"] = "running"
    /\ program.recorded < MaxRecorded
    /\ program' = [program EXCEPT !.op = "record_audio", !.recorded = @ + 1,
                                  !.audio_out_queue = @ + 1]
    /\ UNCHANGED storeVars
    /\ UNCHANGED <<chunk_call, parse_call, tool, gui>>

\* send_audio: a chunk is taken from audio_out_queue and sent to the session
send_audio ==
    /\ program.kind = "live"
    /\ program.phase = "running"
    /\ program.tasks["send_audio"] = "running"
    /\ program.audio_out_queue > 0
    /\ program' = [program EXCEPT !.op = "send_audio", !.audio_out_queue = @ - 1]
    /\ UNCHANGED storeVars
    /\ UNCHANGED <<chunk_call, parse_call, tool, gui>>

\* receive_response, inside a turn: a response with audio data is put on
\* audio_in_queue; the chunks are numbered in arrival order
receive_audio ==
    /\ program.kind = "live"
    /\ program.phase = "running"
    /\ program.tasks["receive_response"] = "running"
    /\ program.arrived < MaxChunks
    /\ program' = [program EXCEPT !.op = "receive_audio", !.arrived = @ + 1,
                                  !.audio_in_queue = Append(@, program.arrived + 1)]
    /\ UNCHANGED storeVars
    /\ UNCHANGED <<chunk_call, parse_call, tool, gui>>

\* receive_response, at the end of a turn: the loop of get_nowait empties the
\* queue without an await in between
receive_turn_end ==
    /\ program.kind = "live"
    /\ program.phase = "running"
    /\ program.tasks["receive_response"] = "running"
    /\ program' = [program EXCEPT !.op = "receive_turn_end",
                                  !.purged = @ \o program.audio_in_queue,
                                  !.audio_in_queue = <<>>]
    /\ UNCHANGED storeVars
    /\ UNCHANGED <<chunk_call, parse_call, tool, gui>>

\* play_audio: bytestream = await queue.get()
play_audio_get ==
    /\ program.kind = "live"
    /\ program.phase = "running"
    /\ program.tasks["play_audio"] = "running"
    /\ program.playing = None
    /\ program.audio_in_queue # <<>>
    /\ LET got == Dequeue(program.audio_in_queue)
       IN  program' = [program EXCEPT !.op = "play_audio",
                                      !.playing = Some(got.item),
                                      !.audio_in_queue = got.queue]
    /\ UNCHANGED storeVars
    /\ UNCHANGED <<chunk_call, parse_call, tool, gui>>

\* play_audio: await asyncio.to_thread(speaker_stream.write, bytestream) returns
play_audio_write ==
    /\ program.kind = "live"
    /\ program.phase = "running"
    /\ program.tasks["play_audio"] = "running"
    /\ program.playing # None
    /\ program' = [program EXCEPT !.op = "play_audio",
                                  !.played = Append(@, program.playing[1]),
                                  !.playing = None]
    /\ UNCHANGED storeVars
    /\ UNCHANGED <<chunk_call, parse_call, tool, gui>>

\* One of the four other tasks ends with an exception (the microphone, the
\* speaker or the session fails); the task group starts cancelling the others
\* at the first failure
task_fails ==
    /\ program.kind = "live"
    /\ program.phase = "running"
    /\ \A t \in LiveTasks : program.tasks[t] # "failed"
    /\ \E t \in LiveTasks \ { "send_text" } :
          /\ program.tasks[t] = "running"
          /\ program' = [program EXCEPT !.op = "task_fails", !.tasks[t] = "failed"]
    /\ UNCHANGED storeVars
    /\ UNCHANGED <<chunk_call, parse_call, tool, gui>>

\* The status of the tasks after the task group has cancelled those still running
CancelRunning(tasks) ==
    [t \in LiveTasks |-> IF tasks[t] = "running" THEN "cancelled" ELSE tasks[t]]

\* run() after a task has ended.  When send_text returned, `await
\* send_text_task` returns and run raises CancelledError inside the task group;
\* when a task failed, the task group cancels run's own await.  Either way the
\* task group cancels the tasks still running and waits for them; it re-raises
\* the CancelledError, which run catches, when no task failed, and raises the
\* group of the tasks' exceptions otherwise; the finally clause runs.
run_exit ==
    /\ program.kind = "live"
    /\ program.phase = "running"
    /\ \E t \in LiveTasks : program.tasks[t] \in { "done", "failed" }
    /\ LET failed == \E t \in LiveTasks : program.tasks[t] = "failed"
       IN  program' = [Cleanup(program) EXCEPT
                          !.op = "run_exit", !.phase = "ended",
                          !.tasks = CancelRunning(program.tasks),
                          !.exit_path = IF failed THEN "task failure" ELSE "user",
                          !.result = IF failed THEN "raised" ELSE "returned"]
    /\ UNCHANGED storeVars
    /\ UNCHANGED <<chunk_call, parse_call, tool, gui>>

InitLive ==
    /\ InitWith({ <<>> })
    /\ chunk_call = NoCall
    /\ parse_call = NoCall
    /\ tool = NoCall
    /\ gui = NoCall
    /\ program = LiveInit

NextLive ==
    \/ run_start
    \/ send_text
    \/ record_audio
    \/ send_audio
    \/ receive_audio
    \/ receive_turn_end
    \/ play_audio_get
    \/ play_audio_write
    \/ task_fails
    \/ run_exit

SpecLive == InitLive /\ [][NextLive]_vars

\* C24: q in any letter case ends send_text without being sent; the other four
\* tasks are then cancelled as a group; cleanup is called exactly once on every
\* exit path of run.
C24_ExitCancelsAndCleansUp ==
    /\ \A i \in 1..Len(program.sent) : LowerText(program.sent[i]) # <<"q">>
    /\ (program.tasks["send_text"] = "done") =>
          LowerText(program.typed[Len(program.typed)]) = <<"q">>
    /\ program.cleanup_calls = IF program.phase = "ended" THEN 1 ELSE 0
    /\ (program.phase = "ended" /\ program.exit_path = "user") =>
          /\ program.tasks["send_text"] = "done"
          /\ \A t \in LiveTasks \ { "send_text" } : program.tasks[t] = "cancelled"
    /\ (program.phase = "ended" /\ program.exit_path \notin { "connect", "audio stream" }) =>
          \A t \in LiveTasks : program.tasks[t] # "running"

\* The user sent a line and then typed Q; run has returned
C24_Witness ==
    /\ program.phase = "ended"
    /\ program.exit_path = "user"
    /\ program.typed = << <<"hi">>, <<"Q">> >>
    /\ program.sent = << <<"hi">> >>
    /\ program.cleanup_calls = 1
    /\ program.tasks["play_audio"] = "cancelled"

\* The name between the brackets of the directive that starts first in the text
LeftmostName(text) ==
    LET p == SetMin(MatchStarts(text))
    IN  Strip(SubSeq(text, p + 2, SetMin(NameEnds(text, p)) - 1))

\* The names of the directives that start later in the text
LaterNames(text) ==
    { Strip(SubSeq(text, p + 2, SetMin(NameEnds(text, p)) - 1)) :
      p \in MatchStarts(text) \ { SetMin(MatchStarts(text)) } }

SeveralDirectives(text) == Cardinality(MatchStarts(text)) >= 2

\* The text cut off where its second directive starts
BeforeSecond(text) ==
    SubSeq(text, 1, SetMin(MatchStarts(text) \ { SetMin(MatchStarts(text)) }) - 1)

\* C25: on a response that holds several directives, parse_function_call
\* returns the one that comes first in the text and generate_response
\* dispatches that one only; a later directive is neither in the parsed result
\* nor executed.
C25_FirstDirectiveOnly ==
    /\ (parse_call.op = "returned" /\ SeveralDirectives(parse_call.text)) =>
          LET r == parse_call.result[1]
          IN  /\ r.detected
              /\ r.function = LeftmostName(parse_call.text)
              /\ r.function \notin LaterNames(parse_call.text)
              /\ r = ParseFunctionCall(BeforeSecond(parse_call.text))
    /\ (/\ tool # NoCall
        /\ tool.op = "generate_response"
        /\ tool.input.first # None
        /\ SeveralDirectives(tool.input.first[1])) =>
          /\ Len(tool.st.dispatches) = 1
          /\ tool.st.dispatches[1].function = LeftmostName(tool.input.first[1])
          /\ \A i \in 1..Len(tool.st.calls) :
                tool.st.calls[i].function \notin LaterNames(tool.input.first[1])

\* generate_response has returned on a first response that names
\* get_current_time and then list_available_documents: the clock was read and
\* the documents were not listed
C25_Witness ==
    /\ tool # NoCall
    /\ tool.op = "generate_response"
    /\ tool.input.first # None
    /\ SeveralDirectives(tool.input.first[1])
    /\ LaterNames(tool.input.first[1]) = { <<"list_available_documents">> }
    /\ Len(tool.st.calls) = 1
    /\ tool.st.calls[1].function = <<"get_current_time">>

----------------------------------------------------------------------------
(* chunks_count against the chunk records *)

\* The chunk records that carry the doc_idx of the i-th document
RecordsOf(i) == Len(SelectSeq(chunks_info, LAMBDA c : c.doc_idx = i - 1))

\* The embedding calls made for the chunks of the i-th document that raised
FailedChunksOf(i) ==
    LET from == EmbedCalls(SubSeq(documents, 1, i - 1))
        n == Len(ChunksOf(documents[i]))
    IN  Cardinality({ j \in (from + 1)..(from + n) : embed_log[j].outcome = None })

\* C26 as stated: after create_embeddings, a document some of whose chunks
\* failed to embed has a chunks_count smaller than the number of chunk records
\* carrying its doc_idx.
C26_UnderCounts ==
    proc_op.op = "create_embeddings" =>
        \A i \in 1..Len(documents) :
            FailedChunksOf(i) > 0 => documents[i].chunks_count[1] < RecordsOf(i)

\* C26 amended: a failed chunk is skipped and the batch continues with the
\* next chunk, and chunks_count is the number of chunks the document was cut
\* into: the chunk records carrying its doc_idx plus its failed chunks, so it
\* is never smaller than the number of records and is larger whenever a chunk
\* failed.
C26_CountsEveryChunk ==
    proc_op.op = "create_embeddings" =>
        /\ Len(embed_log) = EmbedCalls(documents)
        /\ Len(chunks_info) = Len(embeddings)
        /\ \A i \in 1..Len(documents) :
              /\ documents[i].chunks_count # None
              /\ documents[i].chunks_count[1] = RecordsOf(i) + FailedChunksOf(i)

\* The first document's only chunk failed and a later document's chunk was
\* embedded after it
C26_Witness ==
    /\ proc_op.op = "create_embeddings"
    /\ Len(documents) >= 2
    /\ FailedChunksOf(1) = 1
    /\ RecordsOf(1) = 0
    /\ documents[1].chunks_count = Some(1)
    /\ \E i \in 2..Len(documents) : RecordsOf(i) = 1

----------------------------------------------------------------------------
(* The two files of the store after a rebuild that stops half way *)

\* C27: whenever both files of the store exist, the index file holds as many
\* vectors as the metadata file holds chunk records, whatever builds came
\* before, a build stopped between the two writes included; so no search on a
\* loaded store looks up a position outside chunks_info.
C27_FilesAgree ==
    /\ (index_file # None /\ pkl_file # None) =>
          index_file[1].ntotal = Len(pkl_file[1].chunks_info)
    /\ last_search # None => last_search[1].raised # "IndexError"

----------------------------------------------------------------------------
(* save_to_vector_store with nothing to save *)

----------------------------------------------------------------------------
(* One question answered: process_query of the GUI objects, and one turn of
   the terminal's run_cli loop *)

\* A loaded store without a vector
EmptyToolStore ==
    [index |-> [d |-> 2, ntotal |-> 0, xb |-> <<>>], chunks_info |-> <<>>,
     documents |-> <<>>]

\* The terminal assistant over the two stores
TerminalInits ==
    ToolInits \cup { [t EXCEPT !.store = EmptyToolStore] : t \in ToolInits }

\* self.search_documents(query) as run_cli calls it: top_k is the default
SearchDocuments(env, store, st, query) ==
    IF env.embed = None THEN Raises(st, "EmbedError")
    ELSE Bind(FaissSearch(store.index, VecToFloat32(env.embed[1]), DefaultTopK),
              LAMBDA answers :
            Bind(Gather(CHOOSE found \in answers : TRUE, store.chunks_info, 0, <<>>),
                 LAMBDA g :
                IF g.raised # "" THEN Raises(st, g.raised)
                ELSE Returns(st, g.results)))

\* The body of run_cli's loop for a question: search, then generate_response
\* with whatever was found
RunCliTurn(env, store, st, query, first, follow_up) ==
    Then(SearchDocuments(env, store, st, query), LAMBDA s :
        GenerateResponse(env, store, s.st, query, s.value, first, follow_up))

run_cli_turn ==
    /\ tool # NoCall
    /\ tool.op = "init"
    /\ \E query \in ToolQueries,
          first \in { None } \cup { Some(t) : t \in FirstTexts },
          follow_up \in { None } \cup { Some(t) : t \in FollowUpTexts } :
          tool' = ToolCall("run_cli",
                           [query |-> query, first |-> first, follow_up |-> follow_up],
                           RunCliTurn(tool.answers, tool.store, ToolEffects0,
                                      query, first, follow_up))
    /\ UNCHANGED <<storeVars, chunk_call, parse_call, gui, program>>

InitAnswer ==
    /\ InitWith({ <<>> })
    /\ chunk_call = NoCall
    /\ parse_call = NoCall
    /\ program = NoCall
    /\ \/ gui \in GuiInits /\ tool = NoCall
       \/ gui = NoCall /\ tool \in TerminalInits

NextAnswer == GuiProcessQuery \/ run_cli_turn

SpecAnswer == InitAnswer /\ [][NextAnswer]_vars

\* What search_documents did in the GUI call the state records
GuiSearched ==
    LET env == GuiEnv(gui.config, gui.answers[1])
    IN  rag_search_documents(env, CHOOSE found \in GuiFound(env) : TRUE,
                             CallStart(gui.st), gui.query)

\* What search_documents did in the terminal turn the state records
CliSearched == SearchDocuments(tool.answers, tool.store, ToolEffects0, tool.input.query)

\* C29: SimpleRAG.process_query of the GUI calls the generation service if and
\* only if search_documents returned at least one result, and with no result
\* it returns the fixed "# Tidak ada informasi" message without a generation
\* call; run_cli of the terminal calls generate_response also with an empty
\* context.
C29_GenerationOnlyWithResults ==
    /\ (gui # NoCall /\ gui.op \in { "rag.process_query", "app.process_query" }) =>
          /\ gui.st.gen_calls >= 1 <=>
                (GuiSearched.raised = "" /\ GuiSearched.value # <<>>)
          /\ (GuiSearched.raised = "" /\ GuiSearched.value = <<>>) =>
                /\ gui.raised = ""
                /\ gui.value = NoInformation(gui.query)
    /\ (tool # NoCall /\ tool.op = "run_cli" /\ CliSearched.raised = "") =>
          /\ Len(tool.st.gen_calls) >= 1
          /\ tool.st.gen_calls[1].prompt = FirstPrompt(tool.input.query, CliSearched.value)

----------------------------------------------------------------------------
(* The chunks of audio_in_queue *)

\* The chunks play_audio has taken off the queue, in the order it took them
DequeuedChunks ==
    program.played \o (IF program.playing = None THEN <<>> ELSE <<program.playing[1]>>)

\* How many times chunk c occurs in seq
Occurrences(seq, c) == Cardinality({ i \in 1..Len(seq) : seq[i] = c })

Increasing(seq) == \A i, j \in 1..Len(seq) : i < j => seq[i] < seq[j]

\* C30: a chunk receive_response put on audio_in_queue is, at every moment, in
\* exactly one place: waiting in the queue, taken by play_audio (once), or
\* removed by the purge at the end of a turn; play_audio takes the chunks in
\* arrival order, each before every chunk still waiting; the purge leaves the
\* queue empty, and a purged chunk is never played.
C30_PlayedOnceInOrderOrPurged ==
    program.phase \in { "running", "ended" } =>
        /\ \A c \in 1..program.arrived :
              Occurrences(DequeuedChunks, c) + Occurrences(program.purged, c)
              + Occurrences(program.audio_in_queue, c) = 1
        /\ Increasing(DequeuedChunks)
        /\ Increasing(program.audio_in_queue)
        /\ \A i \in 1..Len(DequeuedChunks), j \in 1..Len(program.audio_in_queue) :
              DequeuedChunks[i] < program.audio_in_queue[j]
        /\ \A i \in 1..Len(program.purged) :
              Occurrences(program.played, program.purged[i]) = 0
        /\ program.op = "receive_turn_end" => program.audio_in_queue = <<>>

\* Chunk 1 was played, chunk 2 was purged at the end of the turn while it
\* waited, and chunk 3 of the next turn was played after it
C30_Witness ==
    /\ program.phase = "running"
    /\ program.played = <<1, 3>>
    /\ program.purged = <<2>>
    /\ program.audio_in_queue = <<>>

====
